---- MODULE Spec2Model ----
(***************************************************************************)
(* keyboard-drums: the trigger channel (src/ring.rs), the audio callback   *)
(* (src/audio.rs) and the sample bank cell they share (src/samples.rs).    *)
(*                                                                         *)
(* Numbers.  f32 amplitudes and gains are kept as exact fixed-point        *)
(* integers: a sample value or a single gain factor x is the integer       *)
(* x * Unit; a voice gain (the product of three factors) is in units of    *)
(* 1/Unit^3, and an output sample (source sample * voice gain) in units of *)
(* 1/Unit^4, so that 1.0 in the output buffer is the integer One.          *)
(***************************************************************************)
EXTENDS Integers, Sequences, FiniteSets, TLC

VARIABLES
    queue,            \* ring buffer contents, oldest first (HeapRb<Trigger>)
    trigger_buf,      \* the callback's drain buffer (out of drain)
    voices,           \* Vec<Voice>, owned by the audio thread
    sample_bank,      \* the ArcSwap cell: id of the bank it holds
    data,             \* the output buffer of the current/last callback
    output_channels,  \* stream_config.channels
    master_volume,    \* AudioEngineConfig.master_volume
    max_voices,       \* AudioEngineConfig.max_voices
    pc,               \* position of the audio thread inside audio_callback
    bank,             \* the callback's snapshot of the cell (0: none loaded)
    ti,               \* index of the next trigger of trigger_buf to spawn
    slots_remaining,  \* local of the spawn loop
    send_ret,         \* history: what the last send returned, and whether it found room
    nsent,            \* history: number of send calls so far
    accepted,         \* history: triggers whose send returned true, in order
    delivered,        \* history: what completed drains returned, concatenated
    quiet,            \* history: every send so far came before any trigger was drained
    sent_in_drain,    \* history: a send was accepted since the running drain call began
    key_map,          \* KeyMap: key code -> (sample_index, gain)
    cycling_keys,     \* ResolvedCyclingKeys
    kit_index,        \* KitState.kit_index
    variant_index,    \* KitState.variant_index
    batch,            \* run_event_loop's batch of the current fetch
    in_fetch,         \* the loop is inside the for over a fetch's events
    loop_result,      \* "running", or how run_event_loop returned
    nevents,          \* history: number of input events handled so far
    up_batch,         \* history: the device's events since its last synchronization event
    emitted,          \* history: what was written to the virtual device since then
    emit_result,      \* history: "none", or how the emit call of the last step went
    failed,           \* history: a bank load of a cycling action has failed
    shutdown,         \* the shutdown flag (AtomicBool) the signal handlers set
    loop_pc,          \* position of the input thread inside run_input_loop
    grabbed,          \* "no", "yes", or how the ungrab call went
    returned,         \* "none", or what run_input_loop returned
    fetch_err,        \* history: the kind of error of this turn's fetch_events, or "none"
    startup_pc,       \* position of the main thread inside run, up to the first bank
    config_file,      \* the configuration as written in the file (Config)
    library_gains     \* the per-sample gain array run builds for the library

vars == << queue, trigger_buf, voices, sample_bank, data, output_channels,
           master_volume, max_voices, pc, bank, ti, slots_remaining,
           send_ret, nsent, accepted, delivered, quiet, sent_in_drain,
           key_map, cycling_keys, kit_index, variant_index, batch, in_fetch,
           loop_result, nevents, up_batch, emitted, emit_result, failed,
           shutdown, loop_pc, grabbed, returned, fetch_err,
           startup_pc, config_file, library_gains >>

-----------------------------------------------------------------------------
(* Bounds of the model *)

MaxSends == 5        \* send calls per run of the audio specification
MaxFrames == 2       \* frames of one output buffer
RingMaxSends == 131  \* send calls per run of the ring specification

(* Program constants *)

RING_BUFFER_SIZE == 128
U8Range == 256

-----------------------------------------------------------------------------
(* Fixed point *)

Unit == 10
Half == Unit \div 2
One == Unit * Unit * Unit * Unit

Min(a, b) == IF a < b THEN a ELSE b

\* usize::saturating_sub
saturating_sub(a, b) == IF a > b THEN a - b ELSE 0

\* Mutant: no clamp.
not_clamped(x) == x

\* f32::clamp(-1.0, 1.0) on an output sample
clamp(x) == IF x < -One THEN -One ELSE IF x > One THEN One ELSE x

-----------------------------------------------------------------------------
(* Sample data and banks *)

SampleData(d, c) == [data |-> d, channels |-> c]

\* Mutant: the frame count forgets the channel count.
num_frames_as_samples(s) == Len(s.data)

\* SampleData::num_frames
num_frames(s) == IF s.channels = 0 THEN 0 ELSE Len(s.data) \div s.channels

\* The silent placeholder load_bank inserts for a missing file.
Placeholder == SampleData(<< >>, 1)

ShortMono  == SampleData(<< 5, 9 >>, 1)
LongStereo == SampleData(<< 9, -9, 5, -5, 3, -10 >>, 2)
LongMono   == SampleData(<< 5, 9, -9 >>, 1)

\* The banks that are ever published to the cell; bank 1 is the initial one.
Banks == << [samples |-> << ShortMono, LongStereo >>,
             sample_gains |-> << Unit, Half >>],
            [samples |-> << Placeholder, LongMono >>,
             sample_gains |-> << Half, Unit >> ] >>

NumBanks == Len(Banks)

\* bank.sample_gains.get(sid).copied().unwrap_or(1.0)
per_sample_gain(b, sid) ==
    IF sid < Len(b.sample_gains) THEN b.sample_gains[sid + 1] ELSE Unit

-----------------------------------------------------------------------------
(* Trigger channel *)

Trigger(sid, v) == [sample_id |-> sid, velocity |-> v]

\* The triggers the input thread sends in the audio specification: both
\* slots, and a sample_id no bank has.
TriggerInputs == { Trigger(0, Half), Trigger(1, Unit), Trigger(2, Unit) }

\* Mutant: the ring takes one trigger more than it has slots.
try_push_one_more(q, t) ==
    IF Len(q) <= RING_BUFFER_SIZE
    THEN [queue |-> Append(q, t), ok |-> TRUE]
    ELSE [queue |-> q, ok |-> FALSE]

\* HeapProd::try_push as send uses it: the queue after the call and the result.
try_push(q, t) ==
    IF Len(q) < RING_BUFFER_SIZE
    THEN [queue |-> Append(q, t), ok |-> TRUE]
    ELSE [queue |-> q, ok |-> FALSE]

-----------------------------------------------------------------------------
(* audio_callback: voice stealing and spawning *)

\* Mutant: the gain leaves out the master volume.
Voice_without_master(t, b, bid, mv, n) ==
    [sample_id   |-> t.sample_id,
     position    |-> 0,
     gain        |-> (IF t.sample_id < Len(b.sample_gains)
                      THEN b.sample_gains[t.sample_id + 1] ELSE Unit)
                     * t.velocity * Unit,
     sample_data |-> b.samples[t.sample_id + 1],
     born        |-> n,
     velocity    |-> t.velocity,
     bank_id     |-> bid]

\* Voice { sample_id, position, gain, sample_data }.  born, velocity and
\* bank_id are history fields: the voice's rank by spawn time among the
\* voices alive (1 is the oldest), the trigger's velocity and the id of the
\* bank snapshot the voice was spawned from.
Voice(t, b, bid, mv, n) ==
    [sample_id   |-> t.sample_id,
     position    |-> 0,
     gain        |-> per_sample_gain(b, t.sample_id) * t.velocity * mv,
     sample_data |-> b.samples[t.sample_id + 1],
     born        |-> n,
     velocity    |-> t.velocity,
     bank_id     |-> bid]

\* History only: the ranks by spawn time renumbered 1..Len(vs), order kept.
by_age(vs) ==
    [k \in 1..Len(vs) |->
        [vs[k] EXCEPT !.born =
            Cardinality({j \in 1..Len(vs) : vs[j].born <= vs[k].born})]]

\* voices.push(Voice { .. }) for trigger t on snapshot b
push_voice(vs, t, b, bid, mv) ==
    Append(by_age(vs), Voice(t, b, bid, mv, Len(vs) + 1))

\* to_steal of the voice-stealing block (0 when the block is skipped)
to_steal(vs, ntrig, maxv) ==
    LET available == saturating_sub(maxv, Len(vs))
    IN  IF ntrig > available /\ vs # << >>
        THEN Min(ntrig - available, Len(vs))
        ELSE 0

\* voices.drain(..to_steal)
steal(vs, ntrig, maxv) ==
    SubSeq(vs, to_steal(vs, ntrig, maxv) + 1, Len(vs))

\* Mutant: the spawn loop has no slot limit (it never breaks).
slots_unlimited(maxv, vs) == RING_BUFFER_SIZE

\* slots_remaining as the spawn loop starts
slots_after_steal(maxv, vs) == saturating_sub(maxv, Len(vs))

\* The guard of the push in the spawn loop: the trigger's sample_id indexes
\* the snapshot.
in_range(t, b) == t.sample_id < Len(b.samples)

-----------------------------------------------------------------------------
(* audio_callback: mixing *)

\* Vec::swap_remove(i), i counted from 1
swap_remove(s, i) ==
    LET n == Len(s)
    IN  [k \in 1..(n - 1) |-> IF k = i THEN s[n] ELSE s[k]]

\* Mutant: direct mapping for every source, mono included.
src_ch_direct(sample_channels, ch) == ch

\* Source channel read for output channel ch
src_ch(sample_channels, ch) ==
    IF sample_channels = 1 THEN 0 ELSE Min(ch, sample_channels - 1)

\* Mutant: a voice gives at most one frame to a callback.
frames_to_mix_one_frame(nf, sample_frames, position) ==
    IF nf < 1 THEN nf ELSE IF sample_frames - position < 1 THEN sample_frames - position ELSE 1

\* frames_to_mix
frames_to_mix(nf, sample_frames, position) ==
    Min(nf, sample_frames - position)

\* The body of the channel loop for one (frame, ch); indices counted from 0.
mix_sample(d, voice, frame, ch, och) ==
    LET sample == voice.sample_data
        src_offset == (voice.position + frame) * sample.channels
        dst_idx == frame * och + ch
        src_idx == src_offset + src_ch(sample.channels, ch)
    IN  IF src_idx < Len(sample.data) /\ dst_idx < Len(d)
        THEN [d EXCEPT ![dst_idx + 1] = @ + sample.data[src_idx + 1] * voice.gain]
        ELSE d

RECURSIVE mix_channels(_, _, _, _, _)
mix_channels(d, voice, frame, ch, och) ==
    IF ch >= och THEN d
    ELSE mix_channels(mix_sample(d, voice, frame, ch, och), voice, frame, ch + 1, och)

RECURSIVE mix_frames(_, _, _, _, _)
mix_frames(d, voice, frame, ftm, och) ==
    IF frame >= ftm THEN d
    ELSE mix_frames(mix_channels(d, voice, frame, 0, och), voice, frame + 1, ftm, och)

\* Mutant: after a removal the loop steps over the voice swapped in.
RECURSIVE mix_loop_skips_swapped(_, _, _, _)
mix_loop_skips_swapped(vs, i, d, och) ==
    IF i > Len(vs) THEN [voices |-> vs, data |-> d]
    ELSE
      LET voice == vs[i]
          sample_frames == num_frames(voice.sample_data)
          nf == Len(d) \div och
      IN  IF voice.position >= sample_frames
          THEN mix_loop_skips_swapped(swap_remove(vs, i), i + 1, d, och)
          ELSE
            LET ftm == frames_to_mix(nf, sample_frames, voice.position)
                d2 == mix_frames(d, voice, 0, ftm, och)
                moved == [voice EXCEPT !.position = @ + ftm]
                vs2 == [vs EXCEPT ![i] = moved]
            IN  IF moved.position >= sample_frames
                THEN mix_loop_skips_swapped(swap_remove(vs2, i), i + 1, d2, och)
                ELSE mix_loop_skips_swapped(vs2, i + 1, d2, och)

\* Mutant: a voice that reaches its end is removed by the next callback.
RECURSIVE mix_loop_late_removal(_, _, _, _)
mix_loop_late_removal(vs, i, d, och) ==
    IF i > Len(vs) THEN [voices |-> vs, data |-> d]
    ELSE
      LET voice == vs[i]
          sample_frames == num_frames(voice.sample_data)
          nf == Len(d) \div och
      IN  IF voice.position >= sample_frames
          THEN mix_loop_late_removal(swap_remove(vs, i), i, d, och)
          ELSE
            LET ftm == frames_to_mix(nf, sample_frames, voice.position)
                d2 == mix_frames(d, voice, 0, ftm, och)
                moved == [voice EXCEPT !.position = @ + ftm]
                vs2 == [vs EXCEPT ![i] = moved]
            IN  mix_loop_late_removal(vs2, i + 1, d2, och)

\* Mutant: after a removal the pass starts over from the first voice.
RECURSIVE mix_loop_starts_over(_, _, _, _)
mix_loop_starts_over(vs, i, d, och) ==
    IF i > Len(vs) THEN [voices |-> vs, data |-> d]
    ELSE
      LET voice == vs[i]
          sample_frames == num_frames(voice.sample_data)
          nf == Len(d) \div och
      IN  IF voice.position >= sample_frames
          THEN mix_loop_starts_over(swap_remove(vs, i), 1, d, och)
          ELSE
            LET ftm == frames_to_mix(nf, sample_frames, voice.position)
                d2 == mix_frames(d, voice, 0, ftm, och)
                moved == [voice EXCEPT !.position = @ + ftm]
                vs2 == [vs EXCEPT ![i] = moved]
            IN  IF moved.position >= sample_frames
                THEN mix_loop_starts_over(swap_remove(vs2, i), 1, d2, och)
                ELSE mix_loop_starts_over(vs2, i + 1, d2, och)

\* The while loop over the voice list; i counted from 1.  Yields the voice
\* list and the buffer after the loop.
RECURSIVE mix_loop(_, _, _, _)
mix_loop(vs, i, d, och) ==
    IF i > Len(vs) THEN [voices |-> vs, data |-> d]
    ELSE
      LET voice == vs[i]
          sample_frames == num_frames(voice.sample_data)
          nf == Len(d) \div och
      IN  IF voice.position >= sample_frames
          THEN mix_loop(swap_remove(vs, i), i, d, och)
          ELSE
            LET ftm == frames_to_mix(nf, sample_frames, voice.position)
                d2 == mix_frames(d, voice, 0, ftm, och)
                moved == [voice EXCEPT !.position = @ + ftm]
                vs2 == [vs EXCEPT ![i] = moved]
            IN  IF moved.position >= sample_frames
                THEN mix_loop(swap_remove(vs2, i), i, d2, och)
                ELSE mix_loop(vs2, i + 1, d2, och)

\* Mutant: the buffer is not zeroed.
not_zeroed(d) == d

\* Step 3: zero the buffer
zeroed(d) == [k \in 1..Len(d) |-> 0]

\* Step 5: clamp every sample
clamp_all(d) == [k \in 1..Len(d) |-> clamp(d[k])]

-----------------------------------------------------------------------------
(* Configuration: the key map and the cycling keys (src/config.rs) *)

\* Option<u16>::None of a cycling key
None == -1

\* f32::clamp(0.0, 1.0) on a gain
clamp01(g) == IF g < 0 THEN 0 ELSE IF g > Unit THEN Unit ELSE g

\* One [[bindings]] entry of the configuration file; a sample file name is
\* kept as a number.
BindingConfig(key, sample, gain) == [key |-> key, sample |-> sample, gain |-> gain]

\* The loop over config.bindings of resolve_config, by its result.  A file
\* name gets its index at its first binding: the number of distinct names
\* bound before it (sample_names.len() at that turn).
sample_index_of(bindings, i) ==
    LET first == CHOOSE j \in 1..i :
                     /\ bindings[j].sample = bindings[i].sample
                     /\ \A h \in 1..(j - 1) : bindings[h].sample # bindings[i].sample
    IN  Cardinality({ bindings[h].sample : h \in 1..(first - 1) })

\* key_map.insert(code, ..) turn after turn: a later binding of a key
\* overwrites the earlier one.
resolve_bindings(bindings) ==
    [c \in { bindings[i].key : i \in 1..Len(bindings) } |->
        LET last == CHOOSE i \in 1..Len(bindings) :
                        /\ bindings[i].key = c
                        /\ \A h \in (i + 1)..Len(bindings) : bindings[h].key # c
        IN  [sample_index |-> sample_index_of(bindings, last),
             gain |-> clamp01(bindings[last].gain)]]

\* resolve_config's sample_names: the distinct file names, in the order of
\* their first binding.
sample_names(bindings) ==
    LET firsts == { i \in 1..Len(bindings) :
                       \A h \in 1..(i - 1) : bindings[h].sample # bindings[i].sample }
    IN  [k \in 1..Cardinality(firsts) |->
            bindings[CHOOSE i \in firsts :
                        Cardinality({ j \in firsts : j <= i }) = k].sample]

ResolvedCyclingKeys(nk, pk, nv, pv) ==
    [next_kit |-> nk, prev_kit |-> pk, next_variant |-> nv, prev_variant |-> pv]

\* The codes of the cycling keys that are configured.
cycling_codes(ck) ==
    { ck.next_kit, ck.prev_kit, ck.next_variant, ck.prev_variant } \ { None }

\* The polyphony cap resolve_config puts in place of a configured 0.
DefaultMaxVoices == 32

\* Mutant: the configured value is handed on as it is.
resolve_max_voices_as_written(n) == n

\* resolve_config on max_voices (a usize of the configuration file)
resolve_max_voices(n) == IF n = 0 THEN DefaultMaxVoices ELSE n

\* resolve_config on the bindings and the cycling keys: it fails on an empty
\* binding list and on a cycling key that is also bound to a sample.
resolve_config(bindings, ck) ==
    LET km == resolve_bindings(bindings)
    IN  [ok |-> bindings # << >> /\ cycling_codes(ck) \cap DOMAIN km = {},
         key_map |-> km,
         cycling_keys |-> ck]

\* KEY_A on sample 0 with gain 0.8; KEY_S on the same file, gain 1.2.
FewBindings == << BindingConfig(30, 1, 8), BindingConfig(31, 1, 12) >>

\* NumBindings bindings, each with a sample file of its own: KEY_S again and
\* again, and KEY_A last.
NumBindings == 257

ManyBindings ==
    [k \in 1..NumBindings |->
        BindingConfig(IF k = NumBindings THEN 30 ELSE 31, k, Unit)]

\* KEY_RIGHT, KEY_LEFT, KEY_UP, KEY_DOWN
ArrowKeys == ResolvedCyclingKeys(106, 105, 103, 108)
NoCyclingKeys == ResolvedCyclingKeys(None, None, None, None)

\* The key maps and cycling keys the dispatcher is run with.  The last is
\* the one of test_cycling_key_does_not_trigger_sample: KEY_RIGHT is both
\* next_kit and bound to a sample, which resolve_config refuses and
\* handle_event has to withstand.
InputConfigs ==
    { [key_map |-> resolve_config(FewBindings, ArrowKeys).key_map,
       cycling_keys |-> ArrowKeys,
       sample_names |-> sample_names(FewBindings)],
      [key_map |-> resolve_config(ManyBindings, NoCyclingKeys).key_map,
       cycling_keys |-> NoCyclingKeys,
       sample_names |-> sample_names(ManyBindings)],
      [key_map |-> [c \in {30, 106} |->
                       [sample_index |-> IF c = 30 THEN 0 ELSE 1, gain |-> Unit]],
       cycling_keys |-> ResolvedCyclingKeys(106, None, None, None),
       sample_names |-> << 1, 2 >>] }

\* The orders in which key_map.values() may visit the bindings (a HashMap
\* promises none).
KeyOrders(km) ==
    { o \in [1..Cardinality(DOMAIN km) -> DOMAIN km] :
         \A i, j \in 1..Cardinality(DOMAIN km) : i # j => o[i] # o[j] }

\* The per-sample gain array of main: 1.0 for each of the n sample names,
\* then the gain of every binding written to its sample's slot, in the
\* order the bindings are visited.
sample_gains(km, n, order) ==
    [i \in 1..n |->
        LET hits == { j \in 1..Len(order) : km[order[j]].sample_index = i - 1 }
        IN  IF hits = {} THEN Unit
            ELSE km[order[CHOOSE j \in hits : \A h \in hits : h <= j]].gain]

\* Mutant: only the keys bound to a sample are suppressed.
build_suppressed_keys_bindings_only(km, ck) == DOMAIN km

\* build_suppressed_keys
build_suppressed_keys(km, ck) == (DOMAIN km) \cup cycling_codes(ck)

-----------------------------------------------------------------------------
(* Kit library and kit selection (src/samples.rs, src/input.rs) *)

\* KitLibrary.kits: for every kit its variants, a variant given by the id of
\* the bank its directory loads to, or 0 when a sample file in it cannot be
\* decoded.  discover_kits keeps no kit without a variant, and kit 0
\* variant 0 is the bank loaded at startup.
Library == << << 1, 2, 0 >>, << 2, 1 >>, << 0 >> >>

kit_count == Len(Library)

variant_count(k) == IF k < Len(Library) THEN Len(Library[k + 1]) ELSE 0

\* KitLibrary::load_bank: Ok(bank) or Err
load_bank(k, v) ==
    IF k >= Len(Library) THEN [ok |-> FALSE, bank |-> 0]
    ELSE IF v >= Len(Library[k + 1]) THEN [ok |-> FALSE, bank |-> 0]
    ELSE IF Library[k + 1][v + 1] = 0 THEN [ok |-> FALSE, bank |-> 0]
    ELSE [ok |-> TRUE, bank |-> Library[k + 1][v + 1]]

\* What the directory of a variant holds under a sample file name: a file
\* that decodes to sample data, a file that does not decode, or nothing.
\* Directory 1 has every file, directory 2 lacks the second, directory 0 has
\* a first file that is no WAV file and lacks the others, and directory 3
\* has no file at all.
VariantFile(dir, name) ==
    IF dir = 1
    THEN [kind |-> "file", sample |-> IF name = 1 THEN ShortMono ELSE LongStereo]
    ELSE IF dir = 2
         THEN IF name = 2 THEN [kind |-> "missing"]
              ELSE [kind |-> "file", sample |-> LongMono]
    ELSE IF dir = 0 /\ name = 1 THEN [kind |-> "malformed"]
    ELSE [kind |-> "missing"]

\* The samples directory: its kit directories in the order of their names,
\* each with its variant directories in the order of their names.
SamplesDir == << << 1, 3, 2, 0 >>, << 3 >>, << 2, 1 >>, << >>, << 0 >> >>

\* discover_kits: a variant directory is kept when it has a file for at
\* least one sample name, a kit when a variant of it is kept; no kit at all
\* is an error.
discover_kits(tree, names) ==
    LET has_sample(dir) ==
            \E i \in 1..Len(names) : VariantFile(dir, names[i]).kind # "missing"
        kept == [k \in 1..Len(tree) |-> SelectSeq(tree[k], has_sample)]
        kits == SelectSeq(kept, LAMBDA variants : variants # << >>)
    IN  [ok |-> kits # << >>, kits |-> kits]

\* Mutant: a sample name without a file gets no slot.
load_bank_samples_skips_missing(names, gains, dir) ==
    IF \E i \in 1..Len(names) : VariantFile(dir, names[i]).kind = "malformed"
    THEN [ok |-> FALSE]
    ELSE LET present == SelectSeq(names,
                            LAMBDA n : VariantFile(dir, n).kind = "file")
         IN  [ok |-> TRUE,
              bank |-> [samples |-> [i \in 1..Len(present) |->
                                        VariantFile(dir, present[i]).sample],
                        sample_gains |-> gains]]

\* The loop of load_bank over sample_names in the directory of the variant,
\* and the bank it returns: Err when a file that is there does not decode,
\* a placeholder for a file that is not there.
load_bank_samples(names, gains, dir) ==
    IF \E i \in 1..Len(names) : VariantFile(dir, names[i]).kind = "malformed"
    THEN [ok |-> FALSE]
    ELSE [ok |-> TRUE,
          bank |-> [samples |-> [i \in 1..Len(names) |->
                                    IF VariantFile(dir, names[i]).kind = "file"
                                    THEN VariantFile(dir, names[i]).sample
                                    ELSE SampleData(<< >>, 1)],
                    sample_gains |-> gains]]

\* Mutant: a failed load empties the cell.
reload_or_clear(st) ==
    [st EXCEPT !.sample_bank = load_bank(st.kit_index, st.variant_index).bank]

\* KitState::reload.  st holds what the input thread can change: queue,
\* nsent, kit_index, variant_index, sample_bank (the cell).
reload(st) ==
    LET r == load_bank(st.kit_index, st.variant_index)
    IN  IF r.ok THEN [st EXCEPT !.sample_bank = r.bank] ELSE st

\* Mutant: a kit change keeps the variant index.
cycle_kit_keeps_variant(st, forward) ==
    LET count == kit_count
    IN  IF count = 0 THEN st
        ELSE reload([st EXCEPT
                 !.kit_index = IF forward THEN (st.kit_index + 1) % count
                               ELSE (st.kit_index + count - 1) % count])

\* KitState::cycle_kit
cycle_kit(st, forward) ==
    LET count == kit_count
    IN  IF count = 0 THEN st
        ELSE reload([st EXCEPT
                 !.kit_index = IF forward THEN (st.kit_index + 1) % count
                               ELSE (st.kit_index + count - 1) % count,
                 !.variant_index = 0])

\* Mutant: stepping back stops at the first variant.
cycle_variant_no_wrap(st, forward) ==
    LET count == variant_count(st.kit_index)
    IN  IF count = 0 THEN st
        ELSE reload([st EXCEPT
                 !.variant_index = IF forward THEN (st.variant_index + 1) % count
                                   ELSE saturating_sub(st.variant_index, 1)])

\* Mutant: the variant index is taken modulo the number of kits.
cycle_variant_counts_kits(st, forward) ==
    LET count == kit_count
    IN  IF count = 0 THEN st
        ELSE reload([st EXCEPT
                 !.variant_index = IF forward THEN (st.variant_index + 1) % count
                                   ELSE (st.variant_index + count - 1) % count])

\* Mutant: the variant changes and the bank is left as it is.
cycle_variant_no_reload(st, forward) ==
    LET count == variant_count(st.kit_index)
    IN  IF count = 0 THEN st
        ELSE [st EXCEPT
                 !.variant_index = IF forward THEN (st.variant_index + 1) % count
                                   ELSE (st.variant_index + count - 1) % count]

\* KitState::cycle_variant
cycle_variant(st, forward) ==
    LET count == variant_count(st.kit_index)
    IN  IF count = 0 THEN st
        ELSE reload([st EXCEPT
                 !.variant_index = IF forward THEN (st.variant_index + 1) % count
                                   ELSE (st.variant_index + count - 1) % count])

-----------------------------------------------------------------------------
(* Input events: handle_event and forward_batch (src/input.rs) *)

InputEvent(type, code, value) == [type |-> type, code |-> code, value |-> value]

\* The synchronization event emit appends: EV_SYN SYN_REPORT 0
SynReport == InputEvent("SYNCHRONIZATION", 0, 0)

\* The events the device sends: key down on KEY_A, on the arrow keys and on
\* KEY_SPACE, key up on KEY_A, key repeat on KEY_RIGHT, the scancode
\* companion MSC_SCAN, and SYN_REPORT.
EventInputs ==
    { InputEvent("KEY", 30, 1), InputEvent("KEY", 30, 0),
      InputEvent("KEY", 106, 1), InputEvent("KEY", 106, 2),
      InputEvent("KEY", 105, 1), InputEvent("KEY", 103, 1),
      InputEvent("KEY", 108, 1), InputEvent("KEY", 57, 1),
      InputEvent("MISC", 4, 30), SynReport }

\* sample_index as u8
as_u8(n) == n % U8Range

\* producer.send(trigger) from the input thread
send(st, t) ==
    [st EXCEPT !.queue = try_push(st.queue, t).queue, !.nsent = @ + 1]

\* Mutant: the sample bindings are looked up before the cycling keys.
handle_event_bindings_first(event, km, ck, st) ==
    IF event.type # "KEY" THEN st
    ELSE IF event.value # 1 THEN st
    ELSE IF event.code \in DOMAIN km
         THEN send(st, Trigger(as_u8(km[event.code].sample_index),
                               km[event.code].gain))
    ELSE IF event.code = ck.next_kit THEN cycle_kit(st, TRUE)
    ELSE IF event.code = ck.prev_kit THEN cycle_kit(st, FALSE)
    ELSE IF event.code = ck.next_variant THEN cycle_variant(st, TRUE)
    ELSE IF event.code = ck.prev_variant THEN cycle_variant(st, FALSE)
    ELSE st

\* Mutant: every value of a KEY event counts as a key down.
handle_event_any_value(event, km, ck, st) ==
    IF event.type # "KEY" THEN st
    ELSE IF event.code = ck.next_kit THEN cycle_kit(st, TRUE)
    ELSE IF event.code = ck.prev_kit THEN cycle_kit(st, FALSE)
    ELSE IF event.code = ck.next_variant THEN cycle_variant(st, TRUE)
    ELSE IF event.code = ck.prev_variant THEN cycle_variant(st, FALSE)
    ELSE IF event.code \in DOMAIN km
         THEN send(st, Trigger(as_u8(km[event.code].sample_index),
                               km[event.code].gain))
    ELSE st

\* handle_event
handle_event(event, km, ck, st) ==
    IF event.type # "KEY" THEN st
    ELSE IF event.value # 1 THEN st
    ELSE IF event.code = ck.next_kit THEN cycle_kit(st, TRUE)
    ELSE IF event.code = ck.prev_kit THEN cycle_kit(st, FALSE)
    ELSE IF event.code = ck.next_variant THEN cycle_variant(st, TRUE)
    ELSE IF event.code = ck.prev_variant THEN cycle_variant(st, FALSE)
    ELSE IF event.code \in DOMAIN km
         THEN send(st, Trigger(as_u8(km[event.code].sample_index),
                               km[event.code].gain))
    ELSE st

\* virtual_device.emit(&forward): the events, then a SYN_REPORT.  emit is
\* the evdev crate's; the source here shows only that it may return Err.
\* What the device has got by then is not fixed by the source: written is
\* how many of the events and the SYN_REPORT reached it, all of them when
\* emit returns Ok.
emit(events, written) ==
    LET all == events \o << SynReport >>
    IN  SubSeq(all, 1, Min(written, Len(all)))

\* Mutant: what is left of a batch is forwarded even without a KEY event.
forward_batch_keeps_companions(b, suppressed, written) ==
    LET keep(ev) == ~(ev.type = "KEY" /\ ev.code \in suppressed)
        forward == SelectSeq(b, keep)
    IN  IF forward = << >> THEN << >> ELSE emit(forward, written)

\* Mutant: a batch is forwarded whole or not at all.
forward_batch_unfiltered(b, suppressed, written) ==
    LET keep(ev) == ~(ev.type = "KEY" /\ ev.code \in suppressed)
        forward == SelectSeq(b, keep)
        has_key_event == \E k \in 1..Len(forward) : forward[k].type = "KEY"
        original_had_key == \E k \in 1..Len(b) : b[k].type = "KEY"
    IN  IF b = << >> THEN << >>
        ELSE IF forward = << >> THEN << >>
        ELSE IF original_had_key /\ ~has_key_event THEN << >>
        ELSE emit(b, written)

\* forward_batch: what it writes to the virtual device (nothing: << >>).
\* An Err of emit is logged and forward_batch returns.
forward_batch(b, suppressed, written) ==
    LET keep(ev) == ~(ev.type = "KEY" /\ ev.code \in suppressed)
        forward == SelectSeq(b, keep)
        has_key_event == \E k \in 1..Len(forward) : forward[k].type = "KEY"
        original_had_key == \E k \in 1..Len(b) : b[k].type = "KEY"
    IN  IF b = << >> THEN << >>
        ELSE IF forward = << >> THEN << >>
        ELSE IF original_had_key /\ ~has_key_event THEN << >>
        ELSE emit(forward, written)

\* History: how the emit call of forward_batch went: "none" when
\* forward_batch returned without calling emit, "ok" when everything
\* handed to emit was written, else "err".
emit_outcome(b, suppressed, written) ==
    LET whole == forward_batch(b, suppressed, Len(b) + 1)
    IN  IF whole = << >> THEN "none"
        ELSE IF forward_batch(b, suppressed, written) = whole THEN "ok"
        ELSE "err"

-----------------------------------------------------------------------------
(* State *)

\* What the output buffer may hold when the callback is entered.
StaleValues == { 0, Half * Unit * Unit * Unit }

\* output_channels, master_volume, max_voices of the engines tried
EngineConfig(och, mv, maxv) ==
    [output_channels |-> och, master_volume |-> mv, max_voices |-> maxv]

Configs == { EngineConfig(2, Half, 3), EngineConfig(2, Unit, 2),
             EngineConfig(1, Unit, 1) }

\* run has started the engine and the input thread; its configuration file
\* and its gain array are not followed any further.
Started ==
    /\ startup_pc = "running"
    /\ config_file = << >>
    /\ library_gains = << >>

\* run_input_loop has grabbed the device and is at the top of the loop of
\* run_event_loop; no shutdown has been asked for.
InLoop ==
    /\ shutdown = FALSE
    /\ loop_pc = "top"
    /\ grabbed = "yes"
    /\ returned = "none"
    /\ fetch_err = "none"

\* run_input_loop's KitState and run_event_loop before its first fetch, with
\* the key map and cycling keys of ic.
InputInit(ic) ==
    /\ key_map = ic.key_map
    /\ cycling_keys = ic.cycling_keys
    /\ kit_index = 0
    /\ variant_index = 0
    /\ batch = << >>
    /\ in_fetch = FALSE
    /\ loop_result = "running"
    /\ nevents = 0
    /\ up_batch = << >>
    /\ emitted = << >>
    /\ emit_result = "none"
    /\ failed = FALSE

Init ==
    /\ InputInit([key_map |-> resolve_config(FewBindings, ArrowKeys).key_map,
                  cycling_keys |-> ArrowKeys])
    /\ queue = << >>
    /\ trigger_buf = << >>
    /\ voices = << >>
    /\ sample_bank = 1
    /\ data = << >>
    /\ \E c \in Configs :
          /\ output_channels = c.output_channels
          /\ master_volume = c.master_volume
          /\ max_voices = c.max_voices
    /\ pc = "idle"
    /\ bank = 0
    /\ ti = 1
    /\ slots_remaining = 0
    /\ send_ret = [ok |-> TRUE, room |-> TRUE]
    /\ nsent = 0
    /\ accepted = << >>
    /\ delivered = << >>
    /\ quiet = TRUE
    /\ sent_in_drain = FALSE
    /\ InLoop
    /\ Started

config == << output_channels, master_volume, max_voices >>
ring_hist == << send_ret, accepted, delivered, quiet, sent_in_drain >>
audio_locals == << bank, ti, slots_remaining >>
kit_state == << kit_index, variant_index >>
startup_state == << startup_pc, config_file, library_gains >>
input_config == << key_map, cycling_keys, startup_state >>
loop_state == << shutdown, loop_pc, grabbed, returned, fetch_err >>
input_state == << input_config, kit_state, batch, in_fetch, loop_result,
                 nevents, up_batch, emitted, emit_result, failed, loop_state >>

-----------------------------------------------------------------------------
(* Input thread *)

\* TriggerProducer::send
Send(t) ==
    /\ nsent < MaxSends
    /\ queue' = try_push(queue, t).queue
    /\ nsent' = nsent + 1
    /\ UNCHANGED << trigger_buf, voices, sample_bank, data, config, input_state, pc,
                    audio_locals, ring_hist >>

\* Mutant: the voices read their sample data through the cell, so a store
\* replaces what the voices already playing read.
Store_under_voices(b) ==
    /\ sample_bank # b
    /\ sample_bank' = b
    /\ voices' = [k \in 1..Len(voices) |->
                     [voices[k] EXCEPT !.sample_data =
                         Banks[b].samples[voices[k].sample_id + 1]]]
    /\ UNCHANGED << queue, trigger_buf, data, config, input_state, pc, audio_locals,
                    nsent, ring_hist >>

\* ArcSwap::store of bank b
Store(b) ==
    /\ sample_bank # b
    /\ sample_bank' = b
    /\ UNCHANGED << queue, trigger_buf, voices, data, config, input_state, pc, audio_locals,
                    nsent, ring_hist >>

-----------------------------------------------------------------------------
(* Audio thread: audio_callback, one step per shared access or loop turn *)

\* Mutant: drain appends to what the last callback left in the buffer.
CallbackEnter_keeps_triggers(frames, stale) ==
    /\ pc = "idle"
    /\ pc' = "drain"
    /\ data' = [k \in 1..(frames * output_channels) |-> stale]
    /\ trigger_buf' = trigger_buf
    /\ UNCHANGED << queue, voices, sample_bank, config, input_state, audio_locals, nsent,
                    ring_hist >>

\* The device hands over a buffer of frames * output_channels samples;
\* drain starts with out.clear().
CallbackEnter(frames, stale) ==
    /\ pc = "idle"
    /\ pc' = "drain"
    /\ data' = [k \in 1..(frames * output_channels) |-> stale]
    /\ trigger_buf' = << >>
    /\ UNCHANGED << queue, voices, sample_bank, config, input_state, audio_locals, nsent,
                    ring_hist >>

\* One turn of drain's loop: try_pop returned Some(trigger).
DrainPop ==
    /\ pc = "drain"
    /\ queue # << >>
    /\ trigger_buf' = Append(trigger_buf, Head(queue))
    /\ queue' = Tail(queue)
    /\ UNCHANGED << voices, sample_bank, data, config, input_state, pc, audio_locals,
                    nsent, ring_hist >>

\* try_pop returned None: drain returns.  With no trigger the spawn block
\* is skipped.
DrainDone ==
    /\ pc = "drain"
    /\ queue = << >>
    /\ pc' = IF trigger_buf = << >> THEN "mix" ELSE "load"
    /\ UNCHANGED << queue, trigger_buf, voices, sample_bank, data, config, input_state,
                    audio_locals, nsent, ring_hist >>

\* Mutant: the callback spawns from the bank the engine was started with.
LoadAndSteal_startup_bank ==
    /\ pc = "load"
    /\ bank' = 1
    /\ voices' = steal(voices, Len(trigger_buf), max_voices)
    /\ slots_remaining' = slots_after_steal(max_voices, voices')
    /\ ti' = 1
    /\ pc' = "spawn"
    /\ UNCHANGED << queue, trigger_buf, sample_bank, data, config, input_state,
                    nsent, ring_hist >>

\* sample_bank.load(), the voice-stealing block and the initial
\* slots_remaining.
LoadAndSteal ==
    /\ pc = "load"
    /\ bank' = sample_bank
    /\ voices' = steal(voices, Len(trigger_buf), max_voices)
    /\ slots_remaining' = slots_after_steal(max_voices, voices')
    /\ ti' = 1
    /\ pc' = "spawn"
    /\ UNCHANGED << queue, trigger_buf, sample_bank, data, config, input_state, nsent,
                    ring_hist >>

\* Mutant: every turn of the spawn loop loads the cell again.
SpawnStep_reloads ==
    /\ pc = "spawn"
    /\ IF ti > Len(trigger_buf) \/ slots_remaining = 0
       THEN /\ pc' = "mix"
            /\ bank' = 0
            /\ ti' = 1
            /\ slots_remaining' = 0
            /\ UNCHANGED voices
       ELSE /\ pc' = pc
            /\ ti' = ti + 1
            /\ bank' = sample_bank
            /\ IF in_range(trigger_buf[ti], Banks[sample_bank])
               THEN /\ voices' = push_voice(voices, trigger_buf[ti],
                                            Banks[sample_bank], sample_bank,
                                            master_volume)
                    /\ slots_remaining' = slots_remaining - 1
               ELSE UNCHANGED << voices, slots_remaining >>
    /\ UNCHANGED << queue, trigger_buf, sample_bank, data, config, input_state, nsent,
                    ring_hist >>

\* One turn of the spawn loop.
SpawnStep ==
    /\ pc = "spawn"
    /\ IF ti > Len(trigger_buf) \/ slots_remaining = 0
       THEN \* break, or the loop is over: the block's locals are dropped
            /\ pc' = "mix"
            /\ bank' = 0
            /\ ti' = 1
            /\ slots_remaining' = 0
            /\ UNCHANGED voices
       ELSE /\ pc' = pc
            /\ ti' = ti + 1
            /\ bank' = bank
            /\ IF in_range(trigger_buf[ti], Banks[bank])
               THEN /\ voices' = push_voice(voices, trigger_buf[ti],
                                            Banks[bank], bank, master_volume)
                    /\ slots_remaining' = slots_remaining - 1
               ELSE UNCHANGED << voices, slots_remaining >>
    /\ UNCHANGED << queue, trigger_buf, sample_bank, data, config, input_state, nsent,
                    ring_hist >>

\* Steps 3 and 4: zero the buffer, mix every voice.
Mix ==
    /\ pc = "mix"
    /\ LET r == mix_loop(voices, 1, zeroed(data), output_channels)
       IN  /\ voices' = r.voices
           /\ data' = r.data
    /\ pc' = "clamp"
    /\ UNCHANGED << queue, trigger_buf, sample_bank, config, input_state, audio_locals,
                    nsent, ring_hist >>

\* Step 5: clamp, and the callback returns.
Clamp ==
    /\ pc = "clamp"
    /\ data' = clamp_all(data)
    /\ pc' = "idle"
    /\ UNCHANGED << queue, trigger_buf, voices, sample_bank, config, input_state,
                    audio_locals, nsent, ring_hist >>

Next ==
    \/ \E t \in TriggerInputs : Send(t)
    \/ \E b \in 1..NumBanks : Store(b)
    \/ \E f \in 1..MaxFrames, s \in StaleValues : CallbackEnter(f, s)
    \/ DrainPop
    \/ DrainDone
    \/ LoadAndSteal
    \/ SpawnStep
    \/ Mix
    \/ Clamp

Spec == Init /\ [][Next]_vars

\* The steps of the audio thread: the host keeps invoking the callback, and a
\* callback that has begun runs to its end.
AudioStep ==
    \/ \E f \in 1..MaxFrames, s \in StaleValues : CallbackEnter(f, s)
    \/ DrainPop
    \/ DrainDone
    \/ LoadAndSteal
    \/ SpawnStep
    \/ Mix
    \/ Clamp

\* The engine with one voice at most, its callbacks invoked for ever.
InitLife ==
    /\ Init
    /\ max_voices = 1

SpecLife == InitLife /\ [][Next]_vars /\ WF_vars(AudioStep)

-----------------------------------------------------------------------------
(* The trigger channel on its own: one producer, one consumer, the ring    *)
(* at its real size.  The n-th send carries sample_id n mod 256, as the    *)
(* repository's ring tests do.                                             *)

nth_trigger(n) == Trigger(n % U8Range, Unit)

InitRing ==
    /\ Init
    /\ max_voices = 1

\* TriggerProducer::send, with what it returned and what it accepted
RingSend ==
    /\ nsent < RingMaxSends
    /\ LET t == nth_trigger(nsent)
           r == try_push(queue, t)
       IN  /\ queue' = r.queue
           /\ send_ret' = [ok |-> r.ok, room |-> Len(queue) < RING_BUFFER_SIZE]
           /\ accepted' = IF r.ok THEN Append(accepted, t) ELSE accepted
           /\ sent_in_drain' = (sent_in_drain \/ (pc = "drain" /\ r.ok))
    /\ nsent' = nsent + 1
    /\ quiet' = (quiet /\ pc = "idle" /\ delivered = << >>)
    /\ UNCHANGED << trigger_buf, voices, sample_bank, data, config, input_state, pc,
                    audio_locals, delivered >>

\* Mutant: drain does not clear out.
RingDrainEnter_no_clear ==
    /\ pc = "idle"
    /\ pc' = "drain"
    /\ UNCHANGED << queue, trigger_buf, voices, sample_bank, data, config, input_state,
                    audio_locals, nsent, ring_hist >>

\* TriggerConsumer::drain is called: out.clear()
RingDrainEnter ==
    /\ pc = "idle"
    /\ pc' = "drain"
    /\ trigger_buf' = << >>
    /\ UNCHANGED << queue, voices, sample_bank, data, config, input_state, audio_locals,
                    nsent, ring_hist >>

\* Mutant: drain returns after its first pop.
RingDrainDone_after_one ==
    /\ pc = "drain"
    /\ (queue = << >> \/ trigger_buf # << >>)
    /\ pc' = "idle"
    /\ delivered' = delivered \o trigger_buf
    /\ sent_in_drain' = FALSE
    /\ UNCHANGED << queue, trigger_buf, voices, sample_bank, data, config, input_state,
                    audio_locals, nsent, send_ret, accepted, quiet >>

\* try_pop returned None: drain returns what is in out
RingDrainDone ==
    /\ pc = "drain"
    /\ queue = << >>
    /\ pc' = "idle"
    /\ delivered' = delivered \o trigger_buf
    /\ sent_in_drain' = FALSE
    /\ UNCHANGED << queue, trigger_buf, voices, sample_bank, data, config, input_state,
                    audio_locals, nsent, send_ret, accepted, quiet >>

NextRing ==
    \/ RingSend
    \/ RingDrainEnter
    \/ DrainPop
    \/ RingDrainDone

SpecRing == InitRing /\ [][NextRing]_vars

-----------------------------------------------------------------------------
(* The input dispatcher on its own: run_event_loop with the events of each *)
(* fetch drawn one by one as the for loop reaches them, so that a fetch    *)
(* may end after any event.                                                *)

MaxEvents == 3       \* input events per run of the dispatcher specification

\* How many of the events handed to emit, SYN_REPORT included, reach the
\* virtual device: from none to all of the longest batch.
Writes == 0..(MaxEvents + 1)

InitInput ==
    /\ \E ic \in InputConfigs : InputInit(ic)
    /\ queue = << >>
    /\ trigger_buf = << >>
    /\ voices = << >>
    /\ sample_bank = load_bank(0, 0).bank
    /\ data = << >>
    /\ output_channels = 2
    /\ master_volume = Unit
    /\ max_voices = 1
    /\ pc = "idle"
    /\ bank = 0
    /\ ti = 1
    /\ slots_remaining = 0
    /\ send_ret = [ok |-> TRUE, room |-> TRUE]
    /\ nsent = 0
    /\ accepted = << >>
    /\ delivered = << >>
    /\ quiet = TRUE
    /\ sent_in_drain = FALSE
    /\ InLoop
    /\ Started

suppressed_keys == build_suppressed_keys(key_map, cycling_keys)

\* The device's batch is over once its synchronization event has come.
closed(b) == b # << >> /\ b[Len(b)].type = "SYNCHRONIZATION"

\* How many events forward_batch's emit has to write for batch b, the
\* SYN_REPORT counted: 0 when emit is not called.
to_write(b, suppressed) == Len(forward_batch(b, suppressed, Len(b) + 1))

\* One turn of the for loop over a fetch's events: handle_event, then the
\* event ends the batch (forward_batch, batch.clear()) or joins it.
\* written is how much of what emit is given reaches the virtual device:
\* no more than it is given, nothing when it is not called.
HandleFetched(event, written) ==
    /\ loop_result = "running"
    /\ nevents < MaxEvents
    /\ written <= (IF event.type = "SYNCHRONIZATION"
                   THEN to_write(batch, suppressed_keys) ELSE 0)
    /\ LET st == handle_event(event, key_map, cycling_keys,
                     [queue |-> queue, nsent |-> nsent,
                      kit_index |-> kit_index,
                      variant_index |-> variant_index,
                      sample_bank |-> sample_bank])
           cycled == event.type = "KEY" /\ event.value = 1
                     /\ event.code \in cycling_codes(cycling_keys)
       IN  /\ queue' = st.queue
           /\ nsent' = st.nsent
           /\ kit_index' = st.kit_index
           /\ variant_index' = st.variant_index
           /\ sample_bank' = st.sample_bank
           /\ failed' = (failed \/ (cycled /\ kit_count > 0
                            /\ ~load_bank(st.kit_index, st.variant_index).ok))
    /\ IF event.type = "SYNCHRONIZATION"
       THEN /\ emitted' = (IF closed(up_batch) THEN << >> ELSE emitted)
                              \o forward_batch(batch, suppressed_keys, written)
            /\ emit_result' = emit_outcome(batch, suppressed_keys, written)
            /\ batch' = << >>
       ELSE /\ emitted' = (IF closed(up_batch) THEN << >> ELSE emitted)
            /\ emit_result' = "none"
            /\ batch' = Append(batch, event)
    /\ up_batch' = Append(IF closed(up_batch) THEN << >> ELSE up_batch, event)
    /\ in_fetch' = TRUE
    /\ nevents' = nevents + 1
    /\ UNCHANGED << trigger_buf, voices, data, config, input_config, pc,
                    audio_locals, ring_hist, loop_result >>

\* The for loop is over: the trailing events are flushed and the batch is
\* dropped with the loop turn.
FlushTrailing(written) ==
    /\ loop_result = "running"
    /\ in_fetch
    /\ written <= to_write(batch, suppressed_keys)
    /\ emitted' = emitted \o forward_batch(batch, suppressed_keys, written)
    /\ emit_result' = emit_outcome(batch, suppressed_keys, written)
    /\ batch' = << >>
    /\ in_fetch' = FALSE
    /\ UNCHANGED << queue, trigger_buf, voices, sample_bank, data, config,
                    input_config, kit_state, pc, audio_locals, nsent,
                    ring_hist, loop_result, nevents, up_batch, failed >>

-----------------------------------------------------------------------------
(* run_input_loop from the grab to the return, with the shutdown flag.     *)
(* The events of a fetch are drawn one by one as the for loop reaches      *)
(* them, so a fetch may end after any event.                               *)

LoopEvents == { InputEvent("KEY", 30, 1), InputEvent("KEY", 57, 1), SynReport }

\* The kinds of error fetch_events fails with: ErrorKind::Interrupted, and
\* any other.
FetchErrors == { "interrupted", "other" }

\* run_input_loop is called by the input thread main has spawned.
InitLoop ==
    /\ InputInit([key_map |-> resolve_config(FewBindings, ArrowKeys).key_map,
                  cycling_keys |-> ArrowKeys])
    /\ queue = << >>
    /\ trigger_buf = << >>
    /\ voices = << >>
    /\ sample_bank = load_bank(0, 0).bank
    /\ data = << >>
    /\ output_channels = 2
    /\ master_volume = Unit
    /\ max_voices = 1
    /\ pc = "idle"
    /\ bank = 0
    /\ ti = 1
    /\ slots_remaining = 0
    /\ send_ret = [ok |-> TRUE, room |-> TRUE]
    /\ nsent = 0
    /\ accepted = << >>
    /\ delivered = << >>
    /\ quiet = TRUE
    /\ sent_in_drain = FALSE
    /\ shutdown = FALSE
    /\ loop_pc = "grab"
    /\ grabbed = "no"
    /\ returned = "none"
    /\ fetch_err = "none"
    /\ Started

dispatcher == << queue, nsent, sample_bank, kit_state, batch, in_fetch,
                nevents, up_batch, emitted, emit_result, failed >>
outside_loop == << trigger_buf, voices, data, config, input_config, pc,
                  audio_locals, ring_hist >>

\* SIGTERM or SIGINT: the handler signal_hook registered sets the flag.
Signal ==
    /\ ~shutdown
    /\ shutdown' = TRUE
    /\ UNCHANGED << dispatcher, outside_loop, loop_result, loop_pc, grabbed,
                    returned, fetch_err >>

\* device.grab()?: on an error run_input_loop returns it at once.
Grab(ok) ==
    /\ loop_pc = "grab"
    /\ IF ok
       THEN /\ grabbed' = "yes"
            /\ loop_pc' = "top"
            /\ returned' = returned
       ELSE /\ grabbed' = grabbed
            /\ loop_pc' = "returned"
            /\ returned' = "err"
    /\ UNCHANGED << dispatcher, outside_loop, loop_result, shutdown, fetch_err >>

\* The top of the loop: break when the flag is set, else call fetch_events,
\* which blocks until the device has events.
LoopTop ==
    /\ loop_pc = "top"
    /\ loop_result = "running"
    /\ fetch_err' = "none"
    /\ IF shutdown
       THEN /\ loop_result' = "ok"
            /\ loop_pc' = "ungrab"
       ELSE /\ loop_result' = loop_result
            /\ loop_pc' = "fetch"
    /\ UNCHANGED << dispatcher, outside_loop, shutdown, grabbed, returned >>

\* fetch_events has returned events, and the for loop handles the next one.
LoopHandle(event, written) ==
    /\ loop_pc \in { "fetch", "events" }
    /\ HandleFetched(event, written)
    /\ loop_pc' = "events"
    /\ UNCHANGED << shutdown, grabbed, returned, fetch_err >>

\* The for loop is over; back to the top of the loop.
LoopEndOfFetch(written) ==
    /\ loop_pc = "events"
    /\ FlushTrailing(written)
    /\ loop_pc' = "top"
    /\ UNCHANGED << shutdown, grabbed, returned, fetch_err >>

\* fetch_events has returned Ok with no event: the for loop runs zero
\* times, the batch is empty, nothing is flushed; back to the top.
FetchEmpty ==
    /\ loop_pc = "fetch"
    /\ loop_pc' = "top"
    /\ UNCHANGED << dispatcher, outside_loop, loop_result, shutdown, grabbed,
                    returned, fetch_err >>

\* Mutant: an error of fetch_events that is no interruption is returned
\* with the ? operator from run_input_loop itself.
FetchFails_returns_at_once(kind) ==
    /\ loop_pc = "fetch"
    /\ fetch_err' = kind
    /\ IF shutdown
       THEN /\ loop_result' = "ok"
            /\ loop_pc' = "ungrab"
            /\ returned' = returned
       ELSE IF kind = "interrupted"
            THEN /\ loop_result' = loop_result
                 /\ loop_pc' = "top"
                 /\ returned' = returned
            ELSE /\ loop_result' = "err"
                 /\ loop_pc' = "returned"
                 /\ returned' = "err"
    /\ UNCHANGED << dispatcher, outside_loop, shutdown, grabbed >>

\* Mutant: only an interrupted read looks at the shutdown flag.
FetchFails_other_always_err(kind) ==
    /\ loop_pc = "fetch"
    /\ fetch_err' = kind
    /\ IF kind = "interrupted"
       THEN IF shutdown
            THEN /\ loop_result' = "ok"
                 /\ loop_pc' = "ungrab"
            ELSE /\ loop_result' = loop_result
                 /\ loop_pc' = "top"
       ELSE /\ loop_result' = "err"
            /\ loop_pc' = "ungrab"
    /\ UNCHANGED << dispatcher, outside_loop, shutdown, grabbed, returned >>

\* fetch_events has returned Err(e): break when the flag is set, continue
\* when the read was interrupted, else return the error.
FetchFails(kind) ==
    /\ loop_pc = "fetch"
    /\ fetch_err' = kind
    /\ IF shutdown
       THEN /\ loop_result' = "ok"
            /\ loop_pc' = "ungrab"
       ELSE IF kind = "interrupted"
            THEN /\ loop_result' = loop_result
                 /\ loop_pc' = "top"
            ELSE /\ loop_result' = "err"
                 /\ loop_pc' = "ungrab"
    /\ UNCHANGED << dispatcher, outside_loop, shutdown, grabbed, returned >>

\* device.ungrab(), whose error is logged, and run_input_loop returns the
\* result of run_event_loop.
Ungrab(ok) ==
    /\ loop_pc = "ungrab"
    /\ grabbed' = IF ok THEN "ungrabbed" ELSE "ungrab failed"
    /\ returned' = loop_result
    /\ loop_pc' = "returned"
    /\ UNCHANGED << dispatcher, outside_loop, loop_result, shutdown, fetch_err >>

NextLoop ==
    \/ Signal
    \/ \E ok \in BOOLEAN : Grab(ok)
    \/ LoopTop
    \/ \E event \in LoopEvents, written \in Writes : LoopHandle(event, written)
    \/ \E written \in Writes : LoopEndOfFetch(written)
    \/ FetchEmpty
    \/ \E kind \in FetchErrors : FetchFails(kind)
    \/ \E ok \in BOOLEAN : Ungrab(ok)

\* The steps the input thread takes by itself.  That fetch_events returns,
\* with events or with an error, is up to the keyboard and the kernel.
InputThreadStep ==
    \/ \E ok \in BOOLEAN : Grab(ok)
    \/ LoopTop
    \/ \E written \in Writes : LoopEndOfFetch(written)
    \/ \E ok \in BOOLEAN : Ungrab(ok)

SpecLoop == InitLoop /\ [][NextLoop]_vars /\ WF_vars(InputThreadStep)

\* The dispatcher with every event and every configuration, from the
\* loop's first turn (the device is grabbed) on, while no signal comes: the
\* loop ends on an error of fetch_events.  SpecLoop is the loop under a
\* signal.
NextInput ==
    \/ LoopTop
    \/ \E event \in EventInputs, written \in Writes : LoopHandle(event, written)
    \/ \E written \in Writes : LoopEndOfFetch(written)
    \/ FetchEmpty
    \/ \E kind \in FetchErrors : FetchFails(kind)

SpecInput == InitInput /\ [][NextInput]_vars

-----------------------------------------------------------------------------
(* run, from the configuration file to the first bank (src/main.rs) *)

MaxConfigVoices == 256   \* largest max_voices written in a configuration file

\* Config as deserialized from the file
Config(mv, vol, bindings, ck) ==
    [max_voices |-> mv, master_volume |-> vol, bindings |-> bindings,
     cycling_keys |-> ck]

\* KEY_A and KEY_S on two sample files
SplitBindings == << BindingConfig(30, 1, 8), BindingConfig(31, 2, Half) >>

\* KEY_RIGHT is bound to a sample and is also a cycling key
CollidingBindings == << BindingConfig(30, 1, Unit), BindingConfig(106, 2, Unit) >>

ConfigFiles ==
    { Config(mv, vol, b, ArrowKeys) :
        mv \in 0..MaxConfigVoices,
        vol \in { -Half, Half, Unit + Half },
        b \in { FewBindings, SplitBindings, CollidingBindings, << >> } }

\* run is called: nothing is resolved, no engine and no thread exists.
InitStartup ==
    /\ \E cf \in ConfigFiles : config_file = cf
    /\ startup_pc = "config"
    /\ library_gains = << >>
    /\ InputInit([key_map |-> << >>, cycling_keys |-> NoCyclingKeys])
    /\ queue = << >>
    /\ trigger_buf = << >>
    /\ voices = << >>
    /\ sample_bank = 0
    /\ data = << >>
    /\ output_channels = 2
    /\ master_volume = 0
    /\ max_voices = 0
    /\ pc = "idle"
    /\ bank = 0
    /\ ti = 1
    /\ slots_remaining = 0
    /\ send_ret = [ok |-> TRUE, room |-> TRUE]
    /\ nsent = 0
    /\ accepted = << >>
    /\ delivered = << >>
    /\ quiet = TRUE
    /\ sent_in_drain = FALSE
    /\ shutdown = FALSE
    /\ loop_pc = "grab"
    /\ grabbed = "no"
    /\ returned = "none"
    /\ fetch_err = "none"

not_startup == << queue, trigger_buf, voices, data, output_channels, pc,
                 audio_locals, nsent, ring_hist, kit_state, batch, in_fetch,
                 loop_result, nevents, up_batch, emitted, emit_result, failed,
                 loop_state >>

\* config::load_config: resolve_config on the file's values.
ResolveConfig ==
    /\ startup_pc = "config"
    /\ LET r == resolve_config(config_file.bindings, config_file.cycling_keys)
       IN  IF r.ok
           THEN /\ key_map' = r.key_map
                /\ cycling_keys' = r.cycling_keys
                /\ max_voices' = resolve_max_voices(config_file.max_voices)
                /\ master_volume' = clamp01(config_file.master_volume)
                /\ startup_pc' = "resolved"
           ELSE /\ startup_pc' = "failed"
                /\ UNCHANGED << key_map, cycling_keys, max_voices, master_volume >>
    /\ UNCHANGED << not_startup, sample_bank, config_file, library_gains >>

\* The per-sample gain array, filled in the order key_map.values() visits
\* the bindings.
BuildGains ==
    /\ startup_pc = "resolved"
    /\ \E order \in KeyOrders(key_map) :
          library_gains' = sample_gains(key_map,
                              Len(sample_names(config_file.bindings)), order)
    /\ startup_pc' = "gains"
    /\ UNCHANGED << not_startup, sample_bank, config_file, key_map, cycling_keys,
                    max_voices, master_volume >>

\* discover_kits, load_bank(0, 0) and the cell made of the bank.
LoadInitial ==
    /\ startup_pc = "gains"
    /\ LET names == sample_names(config_file.bindings)
           found == discover_kits(SamplesDir, names)
       IN  IF found.ok
              /\ load_bank_samples(names, library_gains, found.kits[1][1]).ok
           THEN /\ sample_bank' = found.kits[1][1]
                /\ startup_pc' = "running"
           ELSE /\ sample_bank' = sample_bank
                /\ startup_pc' = "failed"
    /\ UNCHANGED << not_startup, config_file, library_gains, key_map,
                    cycling_keys, max_voices, master_volume >>

NextStartup ==
    \/ ResolveConfig
    \/ BuildGains
    \/ LoadInitial

SpecStartup == InitStartup /\ [][NextStartup]_vars

-----------------------------------------------------------------------------
(* Claims *)

IsPrefix(p, q) == Len(p) <= Len(q) /\ SubSeq(q, 1, Len(p)) = p

\* The first n triggers the ring specification's producer sends.
first_sent(n) == [k \in 1..n |-> nth_trigger(k - 1)]

\* C1: from an empty voice list, the voice list never holds more than
\* max_voices voices: in no state of any callback, so after every push of
\* the spawn loop and at the end of every callback.
C1_VoicesWithinCap == Len(voices) <= max_voices

\* C1 witness: inside a spawn loop that had more triggers than slots, after
\* the push that filled the last slot, with triggers left over.
C1_Witness ==
    /\ pc = "spawn"
    /\ max_voices >= 2
    /\ Len(voices) = max_voices
    /\ slots_remaining = 0
    /\ ti <= Len(trigger_buf)

\* C2: for every interleaving of sends and drains, what the drains have
\* returned so far is a prefix of the accepted triggers in send order;
\* together with what the running drain has popped and what is still queued
\* it is exactly the accepted sequence (nothing lost, duplicated, reordered),
\* so after a drain that ends with the queue empty it equals that sequence;
\* and the out buffer of a finished drain is the tail of what was returned.
C2_Fifo ==
    /\ IsPrefix(delivered, accepted)
    /\ accepted = delivered \o (IF pc = "drain" THEN trigger_buf ELSE << >>) \o queue
    /\ (pc = "idle" /\ queue = << >>) => delivered = accepted
    /\ pc = "idle" =>
          /\ Len(trigger_buf) <= Len(delivered)
          /\ SubSeq(delivered, Len(delivered) - Len(trigger_buf) + 1,
                    Len(delivered)) = trigger_buf

\* C2 witness: a second drain is running, has popped a trigger, and the
\* producer has sent meanwhile; an earlier send was refused.
C2_Witness ==
    /\ pc = "drain"
    /\ delivered # << >>
    /\ trigger_buf # << >>
    /\ queue # << >>
    /\ Len(accepted) < nsent
    /\ ~quiet

\* C3: send returns true exactly when fewer than 128 triggers are queued at
\* that moment, and a refused send leaves the queue as it was; so after N
\* sends with nothing drained the queue holds the first min(N, 128) sent
\* triggers in order, and one drain after them returns exactly those.
C3_StateInv ==
    /\ send_ret.ok <=> send_ret.room
    /\ Len(queue) <= RING_BUFFER_SIZE
    /\ (quiet /\ delivered = << >> /\ trigger_buf = << >>) =>
          queue = first_sent(Min(nsent, RING_BUFFER_SIZE))
    /\ (quiet /\ pc = "idle" /\ delivered # << >>) =>
          /\ delivered = first_sent(Min(nsent, RING_BUFFER_SIZE))
          /\ trigger_buf \in { << >>, delivered }

C3_SendOverflow ==
    /\ []C3_StateInv
    /\ [][(nsent' = nsent + 1 /\ ~send_ret'.ok) =>
              (queue' = queue /\ Len(queue) = RING_BUFFER_SIZE)]_vars

\* C3 witness: 130 sends, then one drain: 128 triggers drained.
C3_Witness ==
    /\ quiet
    /\ nsent = 130
    /\ pc = "idle"
    /\ Len(trigger_buf) = 128
    /\ ~send_ret.ok

-----------------------------------------------------------------------------
(* The output a callback should write, stated from the mixing rule: the    *)
(* sample at frame f, channel c is the sum over the voices of              *)
(* source_sample * gain, where a voice at position p has a source sample   *)
(* for frame f while p + f is a frame of its sample.                       *)

\* What one voice adds to output frame f (from 0), channel c (from 0).
contribution(sample, position, gain, f, c) ==
    LET sc == sample.channels
        frames == Len(sample.data) \div sc
        source_channel == IF sc = 1 THEN 0 ELSE IF c < sc - 1 THEN c ELSE sc - 1
    IN  IF position + f < frames
        THEN sample.data[(position + f) * sc + source_channel + 1] * gain
        ELSE 0

RECURSIVE sum_over(_, _, _, _)
sum_over(vs, n, f, c) ==
    IF n = 0 THEN 0
    ELSE sum_over(vs, n - 1, f, c)
         + contribution(vs[n].sample_data, vs[n].position, vs[n].gain, f, c)

expected_mix(vs, len, och) ==
    [k \in 1..len |-> sum_over(vs, Len(vs), (k - 1) \div och, (k - 1) % och)]

limited(x) == IF x > One THEN One ELSE IF x < -One THEN -One ELSE x

\* The voice as it was spawned, from its history fields: the sample data and
\* gain of slot sample_id in the bank snapshot it was spawned from.
as_spawned(v) ==
    [v EXCEPT !.sample_data = Banks[v.bank_id].samples[v.sample_id + 1],
              !.gain = Banks[v.bank_id].sample_gains[v.sample_id + 1]
                       * v.velocity * master_volume]

\* C4: a bank store, at any point relative to the callbacks, changes nothing
\* of what a voice spawned before it contributes: every voice keeps the
\* sample data and gain it captured at spawn for as long as it is in the
\* list, and every mix writes the sum computed from those.
C4_StoreKeepsVoices ==
    /\ [](\A k \in 1..Len(voices) : voices[k] = as_spawned(voices[k]))
    /\ [][(pc = "mix" /\ pc' = "clamp") =>
            data' = expected_mix([k \in 1..Len(voices) |-> as_spawned(voices[k])],
                                 Len(data), output_channels)]_vars

\* C4 witness: a callback has just mixed a voice that was spawned in an
\* earlier callback from a bank that is no longer in the cell, and the cell
\* now holds other sample data for its slot.
C4_Witness ==
    /\ pc = "clamp"
    /\ \E k \in 1..Len(voices) :
          /\ voices[k].bank_id # sample_bank
          /\ voices[k].position > Len(data) \div output_channels
          /\ Banks[sample_bank].samples[voices[k].sample_id + 1]
                # voices[k].sample_data
    /\ data[1] # 0

\* C5 (as claimed): whenever a callback steals k voices, they are the k
\* voices spawned earliest among the voices alive: every stolen voice is
\* older than every voice kept.
C5_StealsOldest ==
    [][(pc = "load" /\ pc' = "spawn") =>
         LET k == Len(voices) - Len(voices')
         IN  \A i \in 1..k, j \in (k + 1)..Len(voices) :
                 voices[i].born < voices[j].born]_vars

\* C6: after any callback every sample of the output buffer is in [-1, 1].
C6_OutputInRange ==
    pc = "idle" => \A k \in 1..Len(data) : -One <= data[k] /\ data[k] <= One

\* C6 witness: a callback has returned and the buffer holds both bounds,
\* which only overlapping voices reach (no single voice is louder than 0.9).
C6_Witness ==
    /\ pc = "idle"
    /\ \E k \in 1..Len(data) : data[k] = One
    /\ \E k \in 1..Len(data) : data[k] = -One

\* C7: in every state every voice has 0 <= position <= the frame count of
\* its sample data (its samples divided by its channels).
C7_PositionInSample ==
    \A k \in 1..Len(voices) :
        /\ 0 <= voices[k].position
        /\ voices[k].position * voices[k].sample_data.channels
              <= Len(voices[k].sample_data.data)

\* C7 witness: the list holds a voice on a zero-length sample next to a
\* voice that has advanced into a stereo sample.
C7_Witness ==
    /\ \E k \in 1..Len(voices) : voices[k].sample_data.data = << >>
    /\ \E k \in 1..Len(voices) :
          /\ voices[k].position > 0
          /\ voices[k].sample_data.channels = 2

\* C8: a voice spawned from a trigger with velocity v on sample_id s has
\* gain = sample_gains[s] * v * master_volume of the snapshot the callback
\* loaded, and every frame it contributes is source_sample * that gain
\* before the clamp.
C8_GainOfVoice ==
    /\ [][(pc = "spawn" /\ Len(voices') = Len(voices) + 1) =>
            LET v == voices'[Len(voices')]
                t == trigger_buf[ti]
            IN  /\ v.sample_id = t.sample_id
                /\ v.gain = Banks[bank].sample_gains[t.sample_id + 1]
                            * t.velocity * master_volume]_vars
    /\ [][(pc = "mix" /\ pc' = "clamp" /\ Len(voices) = 1) =>
            LET v == voices[1]
                g == Banks[v.bank_id].sample_gains[v.sample_id + 1]
                     * v.velocity * master_volume
                och == output_channels
            IN  \A k \in 1..Len(data) :
                    data'[k] = contribution(Banks[v.bank_id].samples[v.sample_id + 1],
                                            v.position, g,
                                            (k - 1) \div och, (k - 1) % och)]_vars

\* C8 witness: master volume 0.5, one voice with per-sample gain 1 and
\* velocity 1 on a 0.5 sample: the buffer holds 0.25 before the clamp.
C8_Witness ==
    /\ pc = "clamp"
    /\ master_volume = Half
    /\ Len(voices) = 1
    /\ voices[1].velocity = Unit
    /\ Banks[voices[1].bank_id].sample_gains[voices[1].sample_id + 1] = Unit
    /\ voices[1].sample_data.data[1] = Half
    /\ data[1] * 4 = One

\* C9: every output sample a callback writes is the clamp of the sum, over
\* the voices in the list when mixing starts, of source_sample * voice.gain,
\* whatever the buffer held on entry; with no voice the buffer is all 0, and
\* two voices alike give twice what one gives, before the clamp.
C9_OutputIsSum ==
    [][/\ (pc = "mix" /\ pc' = "clamp") =>
            /\ data' = expected_mix(voices, Len(data), output_channels)
            /\ voices = << >> => \A k \in 1..Len(data) : data'[k] = 0
            /\ (/\ Len(voices) = 2
                /\ voices[1].sample_data = voices[2].sample_data
                /\ voices[1].position = voices[2].position
                /\ voices[1].gain = voices[2].gain) =>
                   \A k \in 1..Len(data) :
                       data'[k] = 2 * contribution(voices[1].sample_data,
                                      voices[1].position, voices[1].gain,
                                      (k - 1) \div output_channels,
                                      (k - 1) % output_channels)
       /\ (pc = "clamp" /\ pc' = "idle") =>
            data' = [k \in 1..Len(data) |-> limited(data[k])]]_vars

\* C9 witness: the buffer came in stale, two voices spawned together on the
\* same sample were mixed, and the sum is past the clamp bound.
C9_Witness ==
    /\ pc = "clamp"
    /\ Len(voices) = 2
    /\ voices[1].sample_data = voices[2].sample_data
    /\ voices[1].position = voices[2].position
    /\ voices[1].gain = voices[2].gain
    /\ \E k \in 1..Len(data) : data[k] > One

\* C10: for every frame a voice mixes, output channel c reads source channel
\* 0 of a mono source and source channel min(c, source_channels - 1)
\* otherwise; so mono sources on a stereo output give left = right in every
\* frame.
C10_ChannelMapping ==
    [][(pc = "mix" /\ pc' = "clamp") =>
         /\ Len(voices) = 1 =>
              LET v == voices[1]
                  sc == v.sample_data.channels
                  och == output_channels
                  nf == Len(data) \div och
              IN  \A f \in 0..(nf - 1), c \in 0..(och - 1) :
                      (v.position + f) * sc < Len(v.sample_data.data) =>
                          data'[f * och + c + 1] =
                              v.sample_data.data[(v.position + f) * sc
                                  + (IF sc = 1 THEN 0
                                     ELSE IF c < sc - 1 THEN c ELSE sc - 1) + 1]
                              * v.gain
         /\ (/\ output_channels = 2
             /\ \A k \in 1..Len(voices) : voices[k].sample_data.channels = 1) =>
                \A f \in 0..(Len(data) \div 2 - 1) :
                    data'[2 * f + 1] = data'[2 * f + 2]]_vars

\* C10 witness: a mono voice has been mixed into a stereo buffer and plays
\* on, and a stereo voice has been mixed into a stereo buffer (two cases).
C10_Witness ==
    /\ pc = "clamp"
    /\ output_channels = 2
    /\ Len(voices) = 1
    /\ voices[1].sample_data.channels = 1
    /\ voices[1].position > 0
    /\ data[1] = data[2]
    /\ data[1] # 0

-----------------------------------------------------------------------------
(* The input dispatcher *)

\* A step of the dispatcher handles an event: the event is the last of the
\* device's events after the step.
handles == nevents' = nevents + 1
handled == up_batch'[Len(up_batch')]

is_key_down(ev) == ev.type = "KEY" /\ ev.value = 1

\* C11: handling a KEY event whose value is not 1 (key up 0, key repeat 2),
\* whatever its code, or an event that is not a KEY event, enqueues no
\* trigger (send is not called) and changes neither kit_index nor
\* variant_index nor the bank the cell holds.
C11_NotKeyDownIgnored ==
    [][(handles /\ ~is_key_down(handled)) =>
          /\ queue' = queue
          /\ nsent' = nsent
          /\ kit_index' = kit_index
          /\ variant_index' = variant_index
          /\ sample_bank' = sample_bank]_vars

\* C11 witness: a key up on a sample-bound key, a key repeat on a cycling
\* key and a scancode event have been handled, and nothing was enqueued or
\* cycled.
C11_Witness ==
    /\ up_batch = << InputEvent("KEY", 30, 0), InputEvent("KEY", 106, 2),
                     InputEvent("MISC", 4, 30) >>
    /\ 30 \in DOMAIN key_map
    /\ cycling_keys.next_kit = 106
    /\ queue = << >>
    /\ nsent = 0
    /\ kit_index = 0
    /\ sample_bank = 1

\* C12 (as claimed): a key down on a sample-bound code that is no cycling
\* code, with room in the queue, enqueues exactly one trigger, whose
\* sample_id is the binding's sample_index and whose velocity is the
\* binding's gain, for every sample index resolve_config assigns.
C12_TriggerOfBinding ==
    [][(/\ handles
        /\ is_key_down(handled)
        /\ handled.code \in DOMAIN key_map
        /\ handled.code \notin cycling_codes(cycling_keys)
        /\ Len(queue) < RING_BUFFER_SIZE) =>
          queue' = Append(queue, Trigger(key_map[handled.code].sample_index,
                                         key_map[handled.code].gain))]_vars

\* What a key down on cycling code c makes of (kit_index, variant_index),
\* stated from the wraparound rule.
cycled_selection(c) ==
    LET kits == Len(Library)
        variants == Len(Library[kit_index + 1])
    IN  IF c = cycling_keys.next_kit THEN << (kit_index + 1) % kits, 0 >>
        ELSE IF c = cycling_keys.prev_kit
             THEN << IF kit_index = 0 THEN kits - 1 ELSE kit_index - 1, 0 >>
        ELSE IF c = cycling_keys.next_variant
             THEN << kit_index, (variant_index + 1) % variants >>
        ELSE << kit_index,
                IF variant_index = 0 THEN variants - 1 ELSE variant_index - 1 >>

\* C13: a key down on a configured cycling code never enqueues a trigger,
\* also when the code is bound to a sample; it moves the kit or the variant
\* (with wraparound; a kit change selects variant 0), and when the bank of
\* the new selection loads, the cell holds that bank.
C13_CyclingFirst ==
    [][(/\ handles
        /\ is_key_down(handled)
        /\ handled.code \in cycling_codes(cycling_keys)) =>
          /\ queue' = queue
          /\ nsent' = nsent
          /\ << kit_index', variant_index' >> = cycled_selection(handled.code)
          /\ Library[kit_index' + 1][variant_index' + 1] # 0 =>
                sample_bank' = Library[kit_index' + 1][variant_index' + 1]]_vars

\* C13 witness: KEY_RIGHT is next_kit and bound to a sample; its key down
\* has been handled: kit 1 is selected, its bank is in the cell, and no
\* trigger is queued.
C13_Witness ==
    /\ 106 \in DOMAIN key_map
    /\ cycling_keys.next_kit = 106
    /\ up_batch = << InputEvent("KEY", 106, 1) >>
    /\ kit_index = 1
    /\ variant_index = 0
    /\ sample_bank = 2
    /\ queue = << >>

\* A step calls forward_batch on the batch: at a synchronization event, and
\* at the end of a fetch.
forwards_on_syn == handles /\ handled.type = "SYNCHRONIZATION"
forwards_on_end == in_fetch /\ ~in_fetch'

\* What of the virtual device's log the step starts from.
emitted_before ==
    IF handles /\ closed(up_batch) THEN << >> ELSE emitted

has_key(b) == \E k \in 1..Len(b) : b[k].type = "KEY"

all_keys_suppressed(b) ==
    \A k \in 1..Len(b) : b[k].type = "KEY" => b[k].code \in suppressed_keys

\* C14: when forward_batch gets a batch whose KEY events all have a
\* suppressed code, with any number of events that are not KEY events
\* beside them, nothing is written to the virtual device.
C14_SuppressedBatchDropped ==
    [][((forwards_on_syn \/ forwards_on_end)
        /\ has_key(batch) /\ all_keys_suppressed(batch)) =>
          emitted' = emitted_before]_vars

\* C14 witness: the batch MSC_SCAN, KEY_A down came in one fetch with its
\* SYN_REPORT, KEY_A is suppressed, and nothing was written.
C14_Witness ==
    /\ up_batch = << InputEvent("MISC", 4, 30), InputEvent("KEY", 30, 1),
                     SynReport >>
    /\ 30 \in suppressed_keys
    /\ batch = << >>
    /\ emitted = << >>

\* C15 (as claimed): once a batch of the device is complete and all its KEY
\* events are suppressed ones, no event of it that is not a KEY event has
\* been written to the virtual device, however the fetches cut the stream.
C15_NoOrphanCompanion ==
    (closed(up_batch) /\ has_key(up_batch) /\ all_keys_suppressed(up_batch)) =>
        \A k \in 1..Len(emitted) :
            emitted[k].type \in { "KEY", "SYNCHRONIZATION" }

\* The events of b that are not suppressed KEY events, in order.
RECURSIVE passed_on(_)
passed_on(b) ==
    IF b = << >> THEN << >>
    ELSE IF Head(b).type = "KEY" /\ Head(b).code \in suppressed_keys
         THEN passed_on(Tail(b))
         ELSE << Head(b) >> \o passed_on(Tail(b))

MaxCycles == 4       \* repetitions of a cycling key in C17

\* n presses of a cycling key: the kit keys or the variant keys
RECURSIVE pressed(_, _, _, _)
pressed(st, kit, forward, n) ==
    IF n = 0 THEN st
    ELSE pressed(IF kit THEN cycle_kit(st, forward)
                 ELSE cycle_variant(st, forward), kit, forward, n - 1)

selection(st) == << st.kit_index, st.variant_index >>

selected(k, v) ==
    [queue |-> queue, nsent |-> nsent, kit_index |-> k, variant_index |-> v,
     sample_bank |-> sample_bank]

\* C17 (as claimed): from every reachable selection, n presses forward and
\* then n presses backward give the (kit_index, variant_index) it started
\* from, for the kit keys and for the variant keys.
C17_CyclingReturns ==
    \A n \in 1..MaxCycles, kit \in BOOLEAN :
        selection(pressed(pressed(selected(kit_index, variant_index),
                                  kit, TRUE, n), kit, FALSE, n))
            = << kit_index, variant_index >>

\* From selection (k, v): n presses of next_variant and then n of
\* prev_variant give (k, v); n presses of next_kit and then n of prev_kit
\* give kit k and variant 0.
returns_to(k, v) ==
    \A n \in 1..MaxCycles :
        /\ selection(pressed(pressed(selected(k, v), FALSE, TRUE, n),
                             FALSE, FALSE, n)) = << k, v >>
        /\ selection(pressed(pressed(selected(k, v), TRUE, TRUE, n),
                             TRUE, FALSE, n)) = << k, 0 >>

\* C17 (amended): n presses of next_variant and then n of prev_variant give
\* the (kit_index, variant_index) it started from; n presses of next_kit
\* and then n of prev_kit give the kit_index it started from and
\* variant_index 0: from every selection a step leaves and from every
\* selection a step moves to.
C17_CyclingReturnsKit ==
    [][kit_state' # kit_state =>
          /\ returns_to(kit_index, variant_index)
          /\ returns_to(kit_index', variant_index')]_vars

\* C17 witness: kit 1, variant 1 has been selected by cycling.
C17_Witness ==
    /\ kit_index = 1
    /\ variant_index = 1
    /\ sample_bank = 1

\* C19: when the bank load of a cycling action fails, the cell holds the
\* bank it held, run_event_loop goes on, and the key events after it are
\* handled: a key down on a sample-bound key still enqueues its trigger.
C19_FailedLoadKeepsBank ==
    /\ [][(/\ handles
           /\ is_key_down(handled)
           /\ handled.code \in cycling_codes(cycling_keys)
           /\ ~load_bank(kit_index', variant_index').ok) =>
             /\ sample_bank' = sample_bank
             /\ loop_result' = "running"]_vars
    /\ [][(/\ failed
           /\ handles
           /\ is_key_down(handled)
           /\ handled.code \in DOMAIN key_map
           /\ handled.code \notin cycling_codes(cycling_keys)) =>
             /\ Len(queue') = Len(queue) + 1
             /\ queue'[Len(queue')].velocity = key_map[handled.code].gain]_vars

\* C19 witness: prev_variant selected a variant that does not load, the
\* cell still holds the startup bank, and the key down on KEY_A after it
\* has enqueued a trigger.
C19_Witness ==
    /\ up_batch = << InputEvent("KEY", 108, 1), InputEvent("KEY", 30, 1) >>
    /\ failed
    /\ kit_index = 0
    /\ variant_index = 2
    /\ sample_bank = 1
    /\ Len(queue) = 1
    /\ loop_result = "running"

-----------------------------------------------------------------------------
(* The bank cell and the triggers of a callback *)

\* C18: the cell holds the bank of the last store until the next store, and
\* load returns the bank the cell holds: a callback that loads after
\* store(x) gets x, keeps it for its whole spawn loop, and every voice it
\* spawns has the sample data of x, whatever is stored meanwhile.
C18_LoadSeesStore ==
    [][/\ (pc = "load" /\ pc' = "spawn") => bank' = sample_bank
       /\ (pc = "spawn" /\ pc' = "spawn") => bank' = bank
       /\ (pc = "spawn" /\ Len(voices') = Len(voices) + 1) =>
             LET v == voices'[Len(voices')]
             IN  /\ v.bank_id = bank
                 /\ v.sample_data = Banks[bank].samples[v.sample_id + 1]
       /\ sample_bank' # sample_bank =>
             (pc' = pc /\ bank' = bank /\ voices' = voices)]_vars

\* C18 witness: bank 2 was stored after a voice had been spawned from bank
\* 1; the next callback has loaded bank 2 and spawned a voice from it.
C18_Witness ==
    /\ pc = "spawn"
    /\ sample_bank = 2
    /\ bank = 2
    /\ Len(voices) = 2
    /\ voices[1].bank_id = 1
    /\ voices[2].bank_id = 2
    /\ voices[2].sample_data = Banks[2].samples[voices[2].sample_id + 1]

\* The triggers of buf that index bank snapshot b.
RECURSIVE in_range_only(_, _)
in_range_only(buf, b) ==
    IF buf = << >> THEN << >>
    ELSE IF Head(buf).sample_id < Len(Banks[b].samples)
         THEN << Head(buf) >> \o in_range_only(Tail(buf), b)
         ELSE in_range_only(Tail(buf), b)

\* The spawn loop from trigger i on, with slots free slots left.
RECURSIVE spawn_from(_, _, _, _, _)
spawn_from(vs, buf, i, slots, b) ==
    IF i > Len(buf) \/ slots = 0 THEN vs
    ELSE IF in_range(buf[i], Banks[b])
         THEN spawn_from(push_voice(vs, buf[i], Banks[b], b, master_volume),
                         buf, i + 1, slots - 1, b)
         ELSE spawn_from(vs, buf, i + 1, slots, b)

\* The voice list after step 2 of a callback that drained buf and loads
\* bank b.
after_spawn(vs, buf, b) ==
    IF buf = << >> THEN vs
    ELSE LET kept == steal(vs, Len(buf), max_voices)
         IN  spawn_from(kept, buf, 1, slots_after_steal(max_voices, kept), b)

\* C20 (as claimed): the triggers of a callback whose sample_id is out of
\* range for the bank it loads are ignored: the voice list after the spawn
\* step (and so the buffer mixed from it) is the one the callback would
\* have made had it drained the other triggers only.
C20_OutOfRangeIgnored ==
    [][(pc = "load" /\ pc' = "spawn") =>
          after_spawn(voices, trigger_buf, sample_bank)
             = after_spawn(voices, in_range_only(trigger_buf, sample_bank),
                           sample_bank)]_vars

-----------------------------------------------------------------------------
(* The end of a voice *)

\* The voices of vs from k on that have a frame to play.
RECURSIVE with_frames(_, _)
with_frames(vs, k) ==
    IF k > Len(vs) THEN << >>
    ELSE IF Len(vs[k].sample_data.data) = 0 THEN with_frames(vs, k + 1)
         ELSE << vs[k] >> \o with_frames(vs, k + 1)

\* C21: a voice on a zero-frame sample (a silent placeholder) adds nothing
\* to the output: the buffer a callback mixes is the one the other voices
\* give; and no such voice is in the list once the callback that drained
\* its trigger has mixed.
C21_PlaceholderSilent ==
    /\ [](pc \notin { "spawn", "mix" } =>
             \A k \in 1..Len(voices) : voices[k].sample_data.data # << >>)
    /\ [][(pc = "mix" /\ pc' = "clamp") =>
             data' = expected_mix(with_frames(voices, 1), Len(data),
                                  output_channels)]_vars

\* C21 witness: the callback drained one trigger, on slot 0 of the bank
\* whose slot 0 is a placeholder, and has mixed: no voice, a silent buffer.
C21_Witness ==
    /\ pc = "clamp"
    /\ sample_bank = 2
    /\ trigger_buf = << Trigger(0, Half) >>
    /\ voices = << >>
    /\ data # << >>
    /\ \A k \in 1..Len(data) : data[k] = 0

-----------------------------------------------------------------------------
(* When a trigger is drained *)

last(s) == s[Len(s)]

\* C22: a callback that began before a send returned does not
\* drain the trigger of that send: while a drain call runs, the trigger
\* accepted last since the call began is not in its buffer.
C22_NotBeforeNextCallback ==
    (pc = "drain" /\ sent_in_drain) =>
        \A k \in 1..Len(trigger_buf) : trigger_buf[k] # last(accepted)

\* C23: a drain call moves at most 128 triggers into its buffer, which was
\* allocated with capacity 128, also when sends go on while it runs.
C23_DrainBounded == Len(trigger_buf) <= RING_BUFFER_SIZE

-----------------------------------------------------------------------------
(* Cycling steps and suppressed keys *)

\* a is one step (d = 1 forward, d = -1 backward) from b modulo n
one_step(a, b, d, n) == a \in 0..(n - 1) /\ (a - b - d + 2 * n) % n = 0

\* C29: cycle_kit moves kit_index one step forward or backward modulo the
\* number of kits and sets variant_index to 0; cycle_variant moves
\* variant_index one step modulo the number of variants of the current kit
\* and leaves kit_index as it is.
C29_CycleOneStep ==
    [][(handles /\ is_key_down(handled)) =>
          LET c == handled.code
              ck == cycling_keys
              kit_keys == { ck.next_kit, ck.prev_kit }
          IN  /\ c = ck.next_kit =>
                    /\ one_step(kit_index', kit_index, 1, kit_count)
                    /\ variant_index' = 0
              /\ (c = ck.prev_kit /\ c # ck.next_kit) =>
                    /\ one_step(kit_index', kit_index, -1, kit_count)
                    /\ variant_index' = 0
              /\ (c = ck.next_variant /\ c \notin kit_keys) =>
                    /\ one_step(variant_index', variant_index, 1,
                                variant_count(kit_index))
                    /\ kit_index' = kit_index
              /\ (c = ck.prev_variant /\ c \notin kit_keys
                                      /\ c # ck.next_variant) =>
                    /\ one_step(variant_index', variant_index, -1,
                                variant_count(kit_index))
                    /\ kit_index' = kit_index]_vars

\* C29 witness: from kit 0 the previous-kit key wrapped to the last kit,
\* whose single variant the previous-variant key then stepped back to.
C29_Witness ==
    /\ up_batch = << InputEvent("KEY", 105, 1), InputEvent("KEY", 108, 1) >>
    /\ cycling_keys = ArrowKeys
    /\ kit_index = kit_count - 1
    /\ variant_count(kit_index) = 1
    /\ variant_index = 0

\* C30: no KEY event whose code is bound to a sample or is a cycling key is
\* written to the virtual device, be it a key down, a key up or a repeat.
C30_NoSuppressedKeyEmitted ==
    \A k \in 1..Len(emitted) :
        emitted[k].type = "KEY" =>
            /\ emitted[k].code \notin DOMAIN key_map
            /\ emitted[k].code \notin cycling_codes(cycling_keys)

\* C30 witness: a batch with a repeat of a cycling key and the key down of a
\* free key was handled; only the free key and the report were written.
C30_Witness ==
    /\ up_batch = << InputEvent("KEY", 106, 2), InputEvent("KEY", 57, 1),
                     SynReport >>
    /\ 106 \in cycling_codes(cycling_keys)
    /\ emitted = << InputEvent("KEY", 57, 1), SynReport >>

-----------------------------------------------------------------------------
(* Every voice ends *)

\* C27: a voice is removed in the callback in which its position reaches
\* the number of frames of its sample, so between the mix of one callback
\* and the spawn loop of the next every voice has frames left to play; and
\* with callbacks of at least one frame invoked for ever, the voices spawned
\* for the triggers sent are all removed in the end.
C27_VoiceLifeEnds ==
    /\ [](pc \notin { "spawn", "mix" } =>
             \A k \in 1..Len(voices) :
                 voices[k].position < num_frames(voices[k].sample_data))
    /\ <>[](voices = << >>)

\* C27 witness: a callback that drained no trigger has mixed the last
\* frames of a voice spawned by an earlier callback, and removed it.
C27_Witness ==
    /\ pc = "clamp"
    /\ trigger_buf = << >>
    /\ voices = << >>
    /\ \E k \in 1..Len(data) : data[k] # 0

-----------------------------------------------------------------------------
(* The shape of a published bank *)

\* The bindings the configurations of InputConfigs come from.
bindings_of(ic) ==
    IF ic.cycling_keys = ArrowKeys THEN FewBindings
    ELSE IF ic.cycling_keys = NoCyclingKeys THEN ManyBindings
    ELSE << BindingConfig(30, 1, Unit), BindingConfig(106, 2, Unit) >>

\* The bank of variant directory dir has one sample and one gain for every
\* distinct sample file of the configuration, and a zero-frame sample where
\* the directory has no file.
well_shaped(ic, order, dir) ==
    LET names == ic.sample_names
        r == load_bank_samples(names, sample_gains(ic.key_map, Len(names), order),
                               dir)
        slots == Cardinality({ bindings_of(ic)[i].sample :
                                  i \in 1..Len(bindings_of(ic)) })
    IN  /\ r.ok
        /\ Len(r.bank.samples) = slots
        /\ Len(r.bank.sample_gains) = slots
        /\ \A i \in 1..Len(names) :
              VariantFile(dir, names[i]).kind = "missing" =>
                  /\ num_frames(r.bank.samples[i]) = 0
                  /\ r.bank.samples[i].data = << >>

\* A load of a variant of the library fails only if a file of its
\* directory does not decode, never for a file that is not there.
fails_only_on_malformed(ic) ==
    \A k \in 0..(kit_count - 1) : \A v \in 0..(variant_count(k) - 1) :
        LET dir == Library[k + 1][v + 1]
        IN  load_bank(k, v).ok <=>
                \A i \in 1..Len(ic.sample_names) :
                    VariantFile(dir, ic.sample_names[i]).kind # "malformed"

published_shape(b) ==
    \A ic \in InputConfigs :
        (ic.key_map = key_map /\ ic.cycling_keys = cycling_keys) =>
            /\ key_map = resolve_bindings(bindings_of(ic))
            /\ \A order \in KeyOrders(key_map) : well_shaped(ic, order, b)
            /\ fails_only_on_malformed(ic)

\* C28: the bank loaded at startup and every bank a cycling action stores
\* has as many samples as gains, one for each distinct sample file of the
\* configuration, with a zero-frame placeholder where the variant has no
\* file; a missing file never makes load_bank fail.
C28_BankShape ==
    /\ [](nevents = 0 => published_shape(sample_bank))
    /\ [][sample_bank' # sample_bank => published_shape(sample_bank')]_vars

\* C28 witness: with two sample files configured, the next-kit key has
\* stored the bank of a variant that lacks the file of the second.
C28_Witness ==
    /\ nevents = 1
    /\ kit_index = 1
    /\ variant_index = 0
    /\ sample_bank = 2
    /\ 106 \in DOMAIN key_map
    /\ VariantFile(sample_bank, 2).kind = "missing"

-----------------------------------------------------------------------------
(* Shutdown of the input loop *)

\* C24: once the shutdown flag is set, the loop exits and run_input_loop
\* returns, also when the keyboard sends no further event.
C24_ShutdownReturns == shutdown ~> (loop_pc = "returned")

\* C25: once run_input_loop has grabbed the device it returns only after
\* it has called ungrab, whether the event loop ended on the shutdown flag
\* or on an error, and what it returns is the event loop's result.
C25_UngrabBeforeReturn ==
    /\ (loop_pc = "returned" /\ grabbed = "no") =>
           (returned = "err" /\ loop_result = "running")
    /\ (loop_pc = "returned" /\ grabbed # "no") =>
           /\ grabbed \in { "ungrabbed", "ungrab failed" }
           /\ loop_result \in { "ok", "err" }
           /\ returned = loop_result
    /\ loop_pc # "returned" => returned = "none"

\* C25 witness: the event loop ended on an error of fetch_events, the
\* device was ungrabbed and the error returned.
C25_Witness ==
    /\ loop_pc = "returned"
    /\ fetch_err = "other"
    /\ grabbed = "ungrabbed"
    /\ returned = "err"

fetch_failed == loop_pc = "fetch" /\ fetch_err' # "none"
retried == loop_pc' = "top" /\ loop_result' = "running"

\* C26 (as stated): when fetch_events fails, an interrupted read is retried
\* if the shutdown flag is not set and ends the loop with Ok if it is set;
\* every other error ends the loop with that error.
C26_FetchErrors ==
    [][fetch_failed =>
          /\ (fetch_err' = "interrupted" /\ ~shutdown) => retried
          /\ (fetch_err' = "interrupted" /\ shutdown) => loop_result' = "ok"
          /\ fetch_err' = "other" => loop_result' = "err"]_vars

\* C26 (amended): when fetch_events fails and the shutdown flag is set, the
\* loop ends with Ok whatever the error; when the flag is not set, an
\* interrupted read is retried and every other error ends the loop with
\* that error.
C26_FetchErrorsUnlessShutdown ==
    [][fetch_failed =>
          /\ shutdown => (loop_result' = "ok" /\ loop_pc' = "ungrab")
          /\ (fetch_err' = "interrupted" /\ ~shutdown) => retried
          /\ (fetch_err' = "other" /\ ~shutdown) =>
                 (loop_result' = "err" /\ loop_pc' = "ungrab")]_vars

\* C26 witness: a read failed with an error that is no interruption while
\* the flag was set, and run_input_loop has returned Ok.
C26_Witness ==
    /\ shutdown
    /\ fetch_err = "other"
    /\ loop_pc = "returned"
    /\ returned = "ok"

-----------------------------------------------------------------------------
(* Batches and fetches *)

\* The number of synchronization events in b.
RECURSIVE reports(_)
reports(b) ==
    IF b = << >> THEN 0
    ELSE (IF Head(b).type = "SYNCHRONIZATION" THEN 1 ELSE 0) + reports(Tail(b))

\* C31 (as claimed): nothing of a batch of the device is written to the
\* virtual device before the synchronization event of the batch has come,
\* and what is written for one batch is written as one batch (one
\* synchronization event), however the fetches cut the event stream.
C31_ForwardedAtMarker ==
    /\ emitted # << >> => closed(up_batch)
    /\ reports(emitted) <= 1

-----------------------------------------------------------------------------
(* The cell and the selection *)

\* C38 (as claimed): after any cycling key presses the cell holds the bank
\* of the kit and variant of the selection, whatever the loads returned.
C38_CellIsSelection ==
    /\ load_bank(kit_index, variant_index).ok
    /\ sample_bank = load_bank(kit_index, variant_index).bank

\* C38 (amended): the cell holds the bank of the selection whenever the
\* bank of the selection loads; when it does not, a load has failed and the
\* cell holds the bank of a variant that loads.
C38_CellIsLoadedSelection ==
    LET r == load_bank(kit_index, variant_index)
    IN  /\ r.ok => sample_bank = r.bank
        /\ ~r.ok =>
              /\ failed
              /\ \E k \in 0..(kit_count - 1) :
                    \E v \in 0..(variant_count(k) - 1) :
                        load_bank(k, v).ok /\ load_bank(k, v).bank = sample_bank

\* C38 witness: a load failed, and after the next key press the cell holds
\* the bank of the selection again.
C38_Witness ==
    /\ nevents = 2
    /\ failed
    /\ kit_index = 0
    /\ variant_index = 1
    /\ sample_bank = 2

\* C39: the library is the one discover_kits makes of the samples
\* directory, where every kit has a variant, and after any cycling key
\* presses kit_index is below the number of kits and variant_index below
\* the number of variants of that kit.
C39_SelectionInRange ==
    /\ [](nevents = 0 =>
             \A ic \in InputConfigs :
                 (ic.key_map = key_map /\ ic.cycling_keys = cycling_keys) =>
                     LET found == discover_kits(SamplesDir, ic.sample_names)
                     IN  found.ok /\ found.kits = Library)
    /\ [](/\ kit_index \in 0..(kit_count - 1)
          /\ variant_index \in 0..(variant_count(kit_index) - 1))

\* C39 witness: the previous-kit key selected the last kit, which has one
\* variant, and the next-variant key was pressed there.
C39_Witness ==
    /\ up_batch = << InputEvent("KEY", 105, 1), InputEvent("KEY", 103, 1) >>
    /\ kit_index = kit_count - 1
    /\ variant_count(kit_index) = 1
    /\ variant_index = 0

-----------------------------------------------------------------------------
(* What run hands to the engine and to the library *)

resolved_config == startup_pc \in { "resolved", "gains", "running" }

\* C37 (as claimed): the max_voices of the resolved configuration is in
\* 1..255, whatever max_voices the configuration file has.
C37_MaxVoicesInByte == resolved_config => max_voices \in 1..255

\* C37 (amended): the max_voices of the resolved configuration is at least
\* 1: 32 for a configured 0, and the configured value otherwise, with no
\* upper limit.
C37_MaxVoicesPositive ==
    resolved_config =>
        /\ max_voices >= 1
        /\ config_file.max_voices = 0 => max_voices = 32
        /\ config_file.max_voices # 0 => max_voices = config_file.max_voices

\* C37 witness: the file says max_voices = 0 and the engine is started
\* with 32.
C37_Witness ==
    /\ startup_pc = "running"
    /\ config_file.max_voices = 0
    /\ max_voices = 32

\* C40 (as claimed): the gain array is a function of the configuration: it
\* is the one array that any visiting order of the key map gives.
C40_GainsDetermined ==
    startup_pc \in { "gains", "running" } =>
        \A order \in KeyOrders(key_map) :
            library_gains = sample_gains(key_map, Len(library_gains), order)

-----------------------------------------------------------------------------
(* One pass of the mix loop *)

\* A voice after one turn of the mix loop on a buffer of nf frames.
mixed_once(v, nf) ==
    [v EXCEPT !.position = @ + Min(nf, num_frames(v.sample_data) - @)]

\* How many entries of the list vs are the voice v.
times_in(vs, v) == Cardinality({ j \in 1..Len(vs) : vs[j] = v })

\* C32: in each callback every voice in the list when mixing starts takes
\* exactly one turn of the mix loop, also when voices are removed by
\* swap-with-back in the same pass: after the pass the list holds, for
\* every voice that still has frames left, that voice advanced once (not
\* left as it was, not advanced twice), and it holds nothing else.
C32_EachVoiceMixedOnce ==
    [][(pc = "mix" /\ pc' = "clamp") =>
          LET nf == Len(data) \div output_channels
              turn == [k \in 1..Len(voices) |-> mixed_once(voices[k], nf)]
              stays(v) == v.position < num_frames(v.sample_data)
          IN  /\ \A k \in 1..Len(voices) :
                    times_in(voices', turn[k]) =
                        IF stays(turn[k]) THEN times_in(turn, turn[k]) ELSE 0
              /\ Len(voices') =
                    Cardinality({ k \in 1..Len(voices) : stays(turn[k]) })]_vars

\* C32 witness: three voices were spawned by this callback; the first has
\* ended and was removed, which put the youngest in its place, and both
\* voices left have advanced.
C32_Witness ==
    /\ pc = "clamp"
    /\ Len(trigger_buf) = 3
    /\ Len(voices) = 2
    /\ voices[1].born = 3
    /\ voices[2].born = 2
    /\ voices[1].position > 0
    /\ voices[2].position > 0

-----------------------------------------------------------------------------
(* The frames of a voice, callback after callback *)

\* The list vs without its k-th voice.
without(vs, k) == SubSeq(vs, 1, k - 1) \o SubSeq(vs, k + 1, Len(vs))

\* A voice with its spawn rank left out (push renumbers the ranks).
unranked(v) == [v EXCEPT !.born = 0]

\* C33: a voice starts at frame 0; a callback with a buffer of nf frames
\* takes from it the frames position .. position + n - 1 of its sample, in
\* order, one per output frame, where n = min(nf, num_frames - position),
\* and leaves it at position + n, removed when that is num_frames; nothing
\* else moves a position.  So the frames of a voice that is not stolen,
\* callback after callback, are 0 .. num_frames - 1 in order, each once,
\* whatever the buffer sizes.
C33_FramesInOrder ==
    /\ [][(pc = "spawn" /\ Len(voices') = Len(voices) + 1) =>
             voices'[Len(voices')].position = 0]_vars
    /\ [][(pc = "mix" /\ pc' = "clamp") =>
             LET och == output_channels
                 nf == Len(data) \div och
             IN  \A k \in 1..Len(voices) :
                   LET v == voices[k]
                       sample == v.sample_data
                       total == num_frames(sample)
                       n == Min(nf, total - v.position)
                       rest == expected_mix(without(voices, k), Len(data), och)
                       moved == [v EXCEPT !.position = v.position + n]
                   IN  /\ \A f \in 0..(nf - 1), c \in 0..(och - 1) :
                             data'[f * och + c + 1] - rest[f * och + c + 1] =
                                 IF f < n
                                 THEN sample.data[(v.position + f) * sample.channels
                                          + src_ch(sample.channels, c) + 1] * v.gain
                                 ELSE 0
                       /\ IF v.position + n < total
                          THEN \E j \in 1..Len(voices') : voices'[j] = moved
                          ELSE \A j \in 1..Len(voices') : voices'[j] # moved]_vars
    /\ [][~(pc = "mix" /\ pc' = "clamp") =>
             \A j \in 1..Len(voices') :
                 \/ voices'[j].position = 0
                 \/ \E k \in 1..Len(voices) :
                        unranked(voices[k]) = unranked(voices'[j])]_vars

\* C33 witness: a voice from an earlier callback had one frame left when a
\* two-frame buffer came: it filled the first frame, left the second
\* silent and ended.
C33_Witness ==
    /\ pc = "clamp"
    /\ trigger_buf = << >>
    /\ voices = << >>
    /\ Len(data) = 2 * output_channels
    /\ data[1] # 0
    /\ \A k \in (output_channels + 1)..Len(data) : data[k] = 0

-----------------------------------------------------------------------------
(* More triggers than voice slots *)

\* C34: when a callback has drained more triggers than max_voices, the
\* voice list at the end of its spawn loop is made of the first max_voices
\* triggers that index the loaded bank, in the order they were queued, one
\* voice each; the later triggers give no voice, in this callback or in a
\* later one: the spawn loop puts nothing back in the queue and the next
\* callback starts from an empty trigger buffer.
C34_EarliestTriggersSpawn ==
    /\ [][(pc = "spawn" /\ pc' = "mix" /\ Len(trigger_buf) > max_voices) =>
             LET served == in_range_only(trigger_buf, bank)
             IN  voices' = [k \in 1..Min(max_voices, Len(served)) |->
                               Voice(served[k], Banks[bank], bank, master_volume, k)]]_vars
    /\ [][(pc = "spawn" /\ (pc' # pc \/ voices' # voices)) =>
             (queue' = queue /\ trigger_buf' = trigger_buf)]_vars
    /\ [][(pc = "idle" /\ pc' = "drain") => trigger_buf' = << >>]_vars

\* C34 witness: a callback with two slots drained three triggers in range
\* and has left its spawn loop: the list holds the voices of the first two,
\* the third, a different trigger, gave none, and the queue is empty.
C34_Witness ==
    /\ pc = "mix"
    /\ max_voices = 2
    /\ Len(trigger_buf) = 3
    /\ \A k \in 1..3 : trigger_buf[k].sample_id < 2
    /\ trigger_buf[3] # trigger_buf[2]
    /\ Len(voices) = 2
    /\ \A k \in 1..2 :
          /\ voices[k].sample_id = trigger_buf[k].sample_id
          /\ voices[k].velocity = trigger_buf[k].velocity
          /\ voices[k].position = 0
    /\ queue = << >>

-----------------------------------------------------------------------------
(* One snapshot of the bank per callback *)

\* The voice a callback holding snapshot b spawns for (sample_id, velocity).
from_snapshot(v, b) ==
    /\ v.bank_id = b
    /\ v.sample_data = Banks[b].samples[v.sample_id + 1]
    /\ v.gain = per_sample_gain(Banks[b], v.sample_id) * v.velocity * master_volume

\* C35: a callback loads the bank cell at most once: the snapshot is taken
\* in the one load step between the drain and the spawn loop and is kept
\* until the loop ends, whatever is stored meanwhile; every voice the
\* callback has spawned (the voices still at position 0 in its spawn loop)
\* has the sample data and the per-sample gain of that one snapshot; and a
\* callback that drained no trigger goes from the drain to the mix without
\* a snapshot.
C35_OneSnapshot ==
    /\ [][/\ bank' # bank =>
                \/ pc = "load" /\ pc' = "spawn" /\ bank = 0 /\ bank' = sample_bank
                \/ pc = "spawn" /\ pc' = "mix" /\ bank' = 0
          /\ pc' = "load" => pc \in { "drain", "load" }
          /\ (pc = "drain" /\ pc' # pc) =>
                pc' = (IF trigger_buf = << >> THEN "mix" ELSE "load")]_vars
    /\ [](pc # "spawn" => bank = 0)
    /\ [](pc = "spawn" =>
             \A k \in 1..Len(voices) :
                 voices[k].position = 0 => from_snapshot(voices[k], bank))

\* C35 witness: the callback holds bank 1, bank 2 was stored while it was
\* running, and the two voices it has spawned are both of bank 1.
C35_Witness ==
    /\ pc = "spawn"
    /\ bank = 1
    /\ sample_bank = 2
    /\ ti = 3
    /\ Len(voices) >= 2
    /\ \A k \in (Len(voices) - 1)..Len(voices) :
          voices[k].position = 0 /\ from_snapshot(voices[k], 1)

-----------------------------------------------------------------------------
(* What a drain call owes to the sends before it *)

\* C36: every trigger that is queued when a drain call starts is in the
\* buffer the call returns, so no trigger accepted before a callback began
\* is still queued after it.  Step by step: the call starts with an empty
\* buffer; while it runs, its buffer followed by the queue only grows, at
\* the end and by the trigger of a send; and it returns its buffer whole
\* when the queue is empty.
C36_QueuedAtStartIsDrained ==
    /\ [][(pc = "idle" /\ pc' = "drain") =>
             trigger_buf' \o queue' = queue]_vars
    /\ [][(pc = "drain" /\ pc' = "drain") =>
             \/ trigger_buf' \o queue' = trigger_buf \o queue
             \/ /\ send_ret'.ok
                /\ trigger_buf' \o queue' =
                      Append(trigger_buf \o queue, last(accepted'))]_vars
    /\ [][(pc = "drain" /\ pc' = "idle") =>
             (queue' = << >> /\ trigger_buf' = trigger_buf)]_vars

\* C36 witness: a second drain call has returned the three triggers that
\* were queued when it started; a trigger sent after it returned is queued.
C36_Witness ==
    /\ pc = "idle"
    /\ Len(trigger_buf) = 3
    /\ Len(delivered) > 3
    /\ ~sent_in_drain
    /\ Len(queue) = 1
    /\ accepted = delivered \o queue

====
